---- MODULE Spec2Model ----
(***************************************************************************)
(* A model of midiplayer_rs: the track decoder (midi/track_data.rs), the   *)
(* loader's track initialisation (midi/loader.rs), the per-track parser,   *)
(* the merge/delta builder and the two playback schedulers                 *)
(* (midi/player.rs).                                                       *)
(*                                                                         *)
(* Numbers.  TLC evaluates 32-bit signed integers, so the values of the    *)
(* u32 word the code uses for variable-length quantities and for the       *)
(* delta table cannot be written at their width.  The width is U32Bits     *)
(* here: every place where the code truncates to u32 or caps at u32::MAX   *)
(* truncates to U32Bits bits or caps at U32_MAX.  u64 ticks are kept to    *)
(* twice that width.  Bytes, messages (24 bits) and tempos (24 bits) keep  *)
(* their real values.                                                      *)
(***************************************************************************)
EXTENDS Integers, Sequences, FiniteSets, TLC

\* ------------------------------------------------------------------------
\* Bounds of the model
\* ------------------------------------------------------------------------

\* Width, in bits, that stands for the code's u32.
U32Bits == 9

\* Longest raw track (bytes) of the byte-level decoder specification.
MaxTrackLen == 5

\* The byte-level specification stops a parse loop that has pushed this many
\* events (the loop itself has no such limit).
MaxEvents == 7

\* Most (delta, event) items in the two tracks of a file together.
MaxItems == 3

\* Most (delta, event) items in the track of a file that is played.
MaxPlayItems == 4

\* Most (delta, event) items in the track of a file played through the
\* batching pipeline.
MaxBatchItems == 4

\* Events per batch; stands for the code's batch_size of 65536.
batch_size == 2

\* Capacity of the work queue and of the pool queue, and number of pooled
\* buffers; stands for the code's lookahead_batches of 2048.
lookahead_batches == 2

\* Events per track chunk in SpecRunning.
MaxRunItems == 3

\* Track chunks per file, and the header's largest track count, in SpecLoad.
MaxLoadTracks == 3

\* Calls of open_stream and drops of a stream in SpecKdmapi.
MaxKdCalls == 5

\* Calls made on the StatsLogger in SpecStats.
MaxStatCalls == 6

\* Largest number of frames of the StatsLogger in SpecStats (main uses 60).
MaxFps == 2

\* The width of the nanosecond count of a Duration built by from_nanos (an
\* u64 in the code), scaled so that durations of a second or two reach it.
DurationBits == 30

U32_MAX == 2^U32Bits - 1

\* u64::MAX for nanosecond counts: 2^DurationBits - 1.
U64NanosMax == (2^(DurationBits - 1) - 1) * 2 + 1

U64Mod == 2^(2 * U32Bits)

Min(a, b) == IF a < b THEN a ELSE b

Max(a, b) == IF a > b THEN a ELSE b

\* ------------------------------------------------------------------------
\* midi/track_data.rs : TrackData
\* ------------------------------------------------------------------------

\* TrackData::new(capacity) followed by the loader's `track.data = data`.
\* last_status is <<>> for None and <<b>> for Some(b).
NewTrack(bytes) ==
    [data |-> bytes, long_msg |-> <<>>, tick |-> 0, offset |-> 0,
     length |-> Len(bytes), message |-> 0, temp |-> 0, last_status |-> <<>>]

\* The loop of decode_variable_length: reads bytes while offset < length,
\* result = (result << 7) | (byte & 0x7F) in a u32, stops after a byte with
\* the high bit clear.  Returns <<track, result>>.
RECURSIVE DecodeLoop(_, _)
DecodeLoop(t, result) ==
    IF t.offset < t.length
    THEN LET byte == t.data[t.offset + 1]
             t2 == [t EXCEPT !.offset = t.offset + 1]
             r == ((result * 128) % (U32_MAX + 1)) + (byte % 128)
         IN  IF byte < 128 THEN <<t2, r>> ELSE DecodeLoop(t2, r)
    ELSE <<t, result>>

decode_variable_length(t) == DecodeLoop(t, 0)

update_tick(t) ==
    LET Advanced(d) == [d[1] EXCEPT !.tick = (t.tick + d[2]) % U64Mod]
    IN  Advanced(decode_variable_length(t))

\* An update_command that steps over a data byte met before any status.
update_command_skipping(t) ==
    IF t.offset >= t.length THEN t
    ELSE LET byte == t.data[t.offset + 1]
         IN  IF byte >= 128
             THEN [t EXCEPT !.offset = t.offset + 1,
                            !.message = byte,
                            !.last_status = <<byte>>]
             ELSE IF t.last_status # <<>>
                  THEN [t EXCEPT !.message = t.last_status[1]]
                  ELSE [t EXCEPT !.message = 0, !.offset = t.offset + 1]

\* An update_command that knows no running status.
update_command_no_running(t) ==
    IF t.offset >= t.length THEN t
    ELSE LET byte == t.data[t.offset + 1]
         IN  IF byte >= 128
             THEN [t EXCEPT !.offset = t.offset + 1,
                            !.message = byte,
                            !.last_status = <<byte>>]
             ELSE [t EXCEPT !.message = 0]

update_command(t) ==
    IF t.offset >= t.length THEN t
    ELSE LET byte == t.data[t.offset + 1]
         IN  IF byte >= 128
             THEN [t EXCEPT !.offset = t.offset + 1,
                            !.message = byte,
                            !.last_status = <<byte>>]
             ELSE IF t.last_status # <<>>
                  THEN [t EXCEPT !.message = t.last_status[1]]
                  ELSE [t EXCEPT !.message = 0]

\* A long-message arm that copies nothing, and leaves the cursor at the
\* start of the payload, when the declared length overruns the track.
LongMessageDropOverrun(t, msg_type) ==
    LET t1 == IF msg_type = 255 /\ t.offset < t.length
              THEN [t EXCEPT !.temp = t.data[t.offset + 1] * 256,
                             !.offset = t.offset + 1]
              ELSE t
        Copied(t2, len) ==
            IF t2.offset + len > t2.length
            THEN [t2 EXCEPT !.long_msg = <<>>]
            ELSE [t2 EXCEPT !.long_msg = SubSeq(t2.data, t2.offset + 1,
                                                t2.offset + len),
                            !.offset = t2.offset + len]
        Decoded(d) == Copied(d[1], d[2])
    IN  Decoded(decode_variable_length(t1))

\* A long-message arm that moves the cursor by the declared length, also
\* past the end of the track.
LongMessageCursorPast(t, msg_type) ==
    LET t1 == IF msg_type = 255 /\ t.offset < t.length
              THEN [t EXCEPT !.temp = t.data[t.offset + 1] * 256,
                             !.offset = t.offset + 1]
              ELSE t
        Copied(t2, len) ==
            LET end == Min(t2.offset + len, t2.length)
            IN  [t2 EXCEPT !.long_msg = SubSeq(t2.data, t2.offset + 1, end),
                           !.offset = t2.offset + len]
        Decoded(d) == Copied(d[1], d[2])
    IN  Decoded(decode_variable_length(t1))

\* The 0xF0 | 0xFF arm of update_message (t already has temp = 0).
LongMessage(t, msg_type) ==
    LET t1 == IF msg_type = 255 /\ t.offset < t.length
              THEN [t EXCEPT !.temp = t.data[t.offset + 1] * 256,
                             !.offset = t.offset + 1]
              ELSE t
        Copied(t2, len) ==
            LET end == Min(t2.offset + len, t2.length)
            IN  [t2 EXCEPT !.long_msg = SubSeq(t2.data, t2.offset + 1, end),
                           !.offset = end]
        Decoded(d) == Copied(d[1], d[2])
    IN  Decoded(decode_variable_length(t1))

update_message(t) ==
    IF t.offset >= t.length THEN t
    ELSE LET t0 == [t EXCEPT !.temp = 0]
             msg_type == t.message % 256
             \* message holds one byte here, temp only bits 8..23: | is +
             Combined(t1) == [t1 EXCEPT !.message = t1.message + t1.temp]
         IN  Combined(
                 IF msg_type <= 191 \/ (msg_type >= 224 /\ msg_type <= 239)
                 THEN IF t0.offset + 2 <= t0.length
                      THEN [t0 EXCEPT
                              !.temp = t0.data[t0.offset + 1] * 256
                                       + t0.data[t0.offset + 2] * 65536,
                              !.offset = t0.offset + 2]
                      ELSE t0
                 ELSE IF msg_type >= 192 /\ msg_type <= 223
                 THEN [t0 EXCEPT !.temp = t0.data[t0.offset + 1] * 256,
                                 !.offset = t0.offset + 1]
                 ELSE IF msg_type = 240 \/ msg_type = 255
                 THEN LongMessage(t0, msg_type)
                 ELSE t0)

\* A process_meta_event that knows the tempo meta only.
process_meta_event_tempo_only(t, bpm) ==
    LET meta_type == (t.message \div 256) % 256
    IN  IF meta_type = 81 /\ Len(t.long_msg) >= 3
        THEN <<t, t.long_msg[1] * 65536 + t.long_msg[2] * 256 + t.long_msg[3]>>
        ELSE <<t, bpm>>

\* process_meta_event: returns <<track, bpm>>.  The multiplier it computes
\* is written to a local of the caller that is never read.
process_meta_event(t, bpm) ==
    LET meta_type == (t.message \div 256) % 256
    IN  IF meta_type = 81 /\ Len(t.long_msg) >= 3
        THEN <<t, t.long_msg[1] * 65536 + t.long_msg[2] * 256 + t.long_msg[3]>>
        ELSE IF meta_type = 47
        THEN <<[t EXCEPT !.data = <<>>, !.length = 0], bpm>>
        ELSE <<t, bpm>>

\* The per-track part of load_midi_file's loop: new track, data, update_tick.
LoadTrack(bytes) == update_tick(NewTrack(bytes))

\* ------------------------------------------------------------------------
\* midi/player.rs : parse_single_track
\* ------------------------------------------------------------------------

DefaultTempo == 500000

\* The locals of parse_single_track before its loop.
ParseStart(track) ==
    [track |-> track, events |-> <<>>, tempo_changes |-> <<>>,
     note_count |-> 0, max_tick |-> 0, bpm_us_per_qn |-> DefaultTempo]

\* Whether the tempo list gets a new entry after a meta event.
TempoPushed(old_bpm, new_bpm) == new_bpm # old_bpm

\* A count of every note-on message, whatever its velocity.
CountsAnyNoteOn(status, velocity) == status >= 144 /\ status <= 159

\* Lines 54-59: (0x90..=0x9F).contains(&status) and velocity > 0.
CountsAsNote(status, velocity) == status >= 144 /\ status <= 159 /\ velocity > 0

\* One iteration of `while track.length > 0`.
ParseIter(ps, track_idx) ==
    LET current_tick == ps.track.tick
        max_tick == Max(ps.max_tick, current_tick)
        Handled(t2) ==
            LET message == t2.message
                status == message % 256
            IN  IF status < 240
                THEN LET velocity == (message \div 65536) % 256
                         counted == CountsAsNote(status, velocity)
                     IN  [ps EXCEPT
                            !.track = update_tick(t2),
                            !.max_tick = max_tick,
                            !.note_count = IF counted THEN @ + 1 ELSE @,
                            !.events = Append(@, [tick |-> current_tick,
                                                  data |-> message,
                                                  track |-> track_idx,
                                                  is_tempo |-> FALSE])]
                ELSE IF status = 255
                THEN LET m == process_meta_event(t2, ps.bpm_us_per_qn)
                     IN  [ps EXCEPT
                            !.track = update_tick(m[1]),
                            !.max_tick = max_tick,
                            !.bpm_us_per_qn = m[2],
                            !.tempo_changes =
                                IF TempoPushed(ps.bpm_us_per_qn, m[2])
                                THEN Append(@, [tick |-> current_tick, us |-> m[2]])
                                ELSE @]
                ELSE [ps EXCEPT !.track = update_tick(t2), !.max_tick = max_tick]
    IN  Handled(update_message(update_command(ps.track)))

\* parse_single_track: the loop run to its exit, and the TrackEvents it
\* returns.  Only called on tracks whose loop exits.
RECURSIVE ParseLoop(_, _)
ParseLoop(ps, track_idx) ==
    IF ps.track.length > 0
    THEN ParseLoop(ParseIter(ps, track_idx), track_idx)
    ELSE ps

parse_single_track(track, track_idx) ==
    LET TrackEvents(ps) ==
            [events |-> ps.events, tempo_changes |-> ps.tempo_changes,
             note_count |-> ps.note_count, max_tick |-> ps.max_tick]
    IN  TrackEvents(ParseLoop(ParseStart(track), track_idx))

\* ------------------------------------------------------------------------
\* midi/player.rs : parse_midi_events
\* ------------------------------------------------------------------------

RECURSIVE Flatten(_)
Flatten(ss) == IF ss = <<>> THEN <<>> ELSE Head(ss) \o Flatten(Tail(ss))

RECURSIVE SumSeq(_)
SumSeq(s) == IF s = <<>> THEN 0 ELSE Head(s) + SumSeq(Tail(s))

SeqMax(s) == IF s = <<>> THEN 0 ELSE CHOOSE m \in {s[i] : i \in 1..Len(s)} :
                                        \A i \in 1..Len(s) : s[i] <= m

\* The tempo events one track contributes to all_events.
TempoEvents(tr) ==
    [k \in 1..Len(tr.tempo_changes) |->
        [tick |-> tr.tempo_changes[k].tick,
         data |-> tr.tempo_changes[k].us,
         track |-> 0,
         is_tempo |-> TRUE]]

\* A merge that concatenates the channel events before the tempo changes.
MergeOrderEventsFirst(results) ==
    Flatten([k \in 1..Len(results) |-> results[k].events])
    \o Flatten([k \in 1..Len(results) |-> TempoEvents(results[k])])

\* all_events before the sort: every track's tempo changes, then every
\* track's events, both in track order.
MergeOrder(results) ==
    Flatten([k \in 1..Len(results) |-> TempoEvents(results[k])])
    \o Flatten([k \in 1..Len(results) |-> results[k].events])

\* Insertion of e before the elements of equal tick: a sort that is not
\* stable.
RECURSIVE InsertBeforeEqual(_, _)
InsertBeforeEqual(sorted, e) ==
    IF sorted = <<>> THEN <<e>>
    ELSE IF Head(sorted).tick < e.tick
         THEN <<Head(sorted)>> \o InsertBeforeEqual(Tail(sorted), e)
         ELSE <<e>> \o sorted

\* Insertion of e after every element whose tick is <= e.tick.
RECURSIVE InsertByTick(_, _)
InsertByTick(sorted, e) ==
    IF sorted = <<>> THEN <<e>>
    ELSE IF Head(sorted).tick <= e.tick
         THEN <<Head(sorted)>> \o InsertByTick(Tail(sorted), e)
         ELSE <<e>> \o sorted

\* par_sort_by_key(|&(tick, _)| tick): a stable sort by tick.
RECURSIVE SortFrom(_, _)
SortFrom(sorted, rest) ==
    IF rest = <<>> THEN sorted
    ELSE SortFrom(InsertByTick(sorted, Head(rest)), Tail(rest))

par_sort_by_key(s) == SortFrom(<<>>, s)

\* The locals of the delta-table loop before its first iteration.
BuildStart ==
    [i |-> 0, events |-> <<>>, deltas |-> <<>>, prev_tick |-> 0,
     bpm_us_per_qn |-> DefaultTempo, total_us_acc |-> 0]

\* An entry keyed to the event after the tick advance.
DeltaEntryAtCurrent(i, delta_tick) == [idx |-> i, ticks |-> Min(delta_tick, U32_MAX)]

\* An entry that keeps the low bits of the advance instead of capping it.
DeltaEntryTruncated(i, delta_tick) ==
    [idx |-> i - 1, ticks |-> delta_tick % (U32_MAX + 1)]

\* The entry pushed to `deltas` at a tick advance seen at loop index i.
DeltaEntry(i, delta_tick) == [idx |-> i - 1, ticks |-> Min(delta_tick, U32_MAX)]

\* Whether the loop iteration for e divides by zero (u128 `/` panics).
BuildPanics(b, e, td) == e.tick > b.prev_tick /\ td = 0

\* A tick advance timed at the default tempo, whatever the tempo in force.
JumpMicrosAtDefault(delta_tick, bpm, td) == (delta_tick * DefaultTempo) \div td

\* Line 183: (delta_tick as u128) * (bpm_us_per_qn as u128) / (time_div as
\* u128), the microseconds added for one tick advance.
JumpMicros(delta_tick, bpm, td) == (delta_tick * bpm) \div td

\* A loop iteration that pushes a delta entry for every tick advance, the
\* one up to the first event included.
BuildIterFromFirst(b, e, td) ==
    LET adv == e.tick > b.prev_tick
        delta_tick == e.tick - b.prev_tick
    IN  [i |-> b.i + 1,
         events |-> Append(b.events, [data |-> e.data, track |-> e.track,
                                     is_tempo |-> e.is_tempo]),
         deltas |-> IF adv
                    THEN Append(b.deltas, DeltaEntry(Max(b.i, 1), delta_tick))
                    ELSE b.deltas,
         prev_tick |-> IF adv THEN e.tick ELSE b.prev_tick,
         bpm_us_per_qn |-> IF e.is_tempo THEN e.data ELSE b.bpm_us_per_qn,
         total_us_acc |-> IF adv
                          THEN b.total_us_acc
                               + JumpMicros(delta_tick, b.bpm_us_per_qn, td)
                          ELSE b.total_us_acc]

\* One iteration of `for (i, (tick, event)) in all_events.iter().enumerate()`
\* that does not panic.
BuildIter(b, e, td) ==
    LET adv == e.tick > b.prev_tick
        delta_tick == e.tick - b.prev_tick
    IN  [i |-> b.i + 1,
         events |-> Append(b.events, [data |-> e.data, track |-> e.track,
                                     is_tempo |-> e.is_tempo]),
         deltas |-> IF adv /\ b.i > 0
                    THEN Append(b.deltas, DeltaEntry(b.i, delta_tick))
                    ELSE b.deltas,
         prev_tick |-> IF adv THEN e.tick ELSE b.prev_tick,
         bpm_us_per_qn |-> IF e.is_tempo THEN e.data ELSE b.bpm_us_per_qn,
         total_us_acc |-> IF adv
                          THEN b.total_us_acc
                               + JumpMicros(delta_tick, b.bpm_us_per_qn, td)
                          ELSE b.total_us_acc]

\* Lines 194-199: total_us_acc * 1000 nanoseconds, or u64::MAX nanoseconds
\* if that is less; the Duration is kept here in whole microseconds.
\* (total_us_acc * 1000 > max exactly when total_us_acc > max \div 1000.)
DurationMicros(total_us_acc) ==
    IF total_us_acc > U64NanosMax \div 1000
    THEN U64NanosMax \div 1000
    ELSE total_us_acc

\* The ParsedMidi returned, total_duration in microseconds.
EmptyParsed ==
    [events |-> <<>>, deltas |-> <<>>, total_ticks |-> 0,
     total_duration |-> 0, note_count |-> 0]

FinishParsed(b, results) ==
    [events |-> b.events, deltas |-> b.deltas,
     total_ticks |-> SeqMax([k \in 1..Len(results) |-> results[k].max_tick]),
     total_duration |-> DurationMicros(b.total_us_acc),
     note_count |-> SumSeq([k \in 1..Len(results) |-> results[k].note_count])]

\* The delta-table loop run over the whole buffer (no panic: td > 0).
RECURSIVE BuildLoop(_, _, _)
BuildLoop(b, evs, td) ==
    IF b.i = Len(evs) THEN b ELSE BuildLoop(BuildIter(b, evs[b.i + 1], td), evs, td)

\* parse_midi_events as a whole, for a time division above 0.
parse_midi_events(trks, td) ==
    IF trks = <<>> THEN EmptyParsed
    ELSE LET Built(results) ==
                 LET evs == par_sort_by_key(MergeOrder(results))
                 IN  FinishParsed(BuildLoop(BuildStart, evs, td), results)
         IN  Built([k \in 1..Len(trks) |-> parse_single_track(trks[k], k - 1)])

\* ------------------------------------------------------------------------
\* midi/player.rs : play_parsed_events
\* ------------------------------------------------------------------------

max_drift == 100000

\* (delta_tick as f64 * multiplier) as i64, where multiplier is
\* (bpm as f64) / (time_div as f64) * 10.0 for the tempo bpm that set it, and
\* 0.0 before any tempo event (bpm = 0 gives the same product).  Computed
\* exactly; for the tempos and the time division of the specifications below
\* the f64 product truncates to the same integer.
Expected(delta_tick, bpm, td) ==
    delta_tick * (bpm \div td) * 10 + (delta_tick * (bpm % td) * 10) \div td

\* The locals of play_parsed_events after line 247; `now` is the reading of
\* get_time_100ns() at line 242.  mult_bpm is the tempo the multiplier was
\* computed from.  out is what the sink and the delay function were called
\* with, in order; waits records each wait step.
SchedStart(now) ==
    [i |-> 0, delta_idx |-> 0, tick |-> 0, mult_bpm |-> 0, old |-> 0,
     delta |-> 0, last_time |-> now, out |-> <<>>, waits |-> <<>>]

SinkCall(ev) == [kind |-> "sink", data |-> ev.data, track |-> ev.track]

DelayCall(t) == [kind |-> "delay", data |-> t, track |-> 0]

\* A dispatch that also hands tempo events to the sink.
play_dispatch_all(s, ev) ==
    [s EXCEPT !.mult_bpm = IF ev.is_tempo THEN ev.data ELSE @,
              !.out = Append(@, SinkCall(ev))]

\* Lines 255-260: a tempo event sets the multiplier, any other goes to the
\* sink.
play_dispatch(s, ev) ==
    IF ev.is_tempo
    THEN [s EXCEPT !.mult_bpm = ev.data]
    ELSE [s EXCEPT !.out = Append(@, SinkCall(ev))]

\* A drift that is never clamped.
KeepDrift(delta) == delta

\* The drift value kept when no sleep is requested.
ClampDrift(delta) == Min(delta, max_drift)

\* A wait step that always asks for the expected interval, whatever the
\* drift.
play_wait_no_drift(s, delta_ticks, now, td) ==
    LET old == Expected(delta_ticks, s.mult_bpm, td)
        delta == s.delta + ((now - s.last_time) - s.old)
        called == old > 0
    IN  [s EXCEPT
           !.tick = (s.tick + delta_ticks) % U64Mod,
           !.last_time = now,
           !.old = old,
           !.delta = IF called THEN delta ELSE ClampDrift(delta),
           !.out = IF called THEN Append(@, DelayCall(old)) ELSE @,
           !.waits = Append(@, [expected |-> old, sleep_time |-> old,
                                called |-> called, now |-> now]),
           !.delta_idx = s.delta_idx + 1]

\* A wait step that subtracts the drift whatever its sign, so that it sleeps
\* longer than the interval after running ahead.
play_wait_catching_up(s, delta_ticks, now, td) ==
    LET old == Expected(delta_ticks, s.mult_bpm, td)
        delta == s.delta + ((now - s.last_time) - s.old)
        sleep_time == old - delta
        called == sleep_time > 0
    IN  [s EXCEPT
           !.tick = (s.tick + delta_ticks) % U64Mod,
           !.last_time = now,
           !.old = old,
           !.delta = IF called THEN delta ELSE ClampDrift(delta),
           !.out = IF called THEN Append(@, DelayCall(sleep_time)) ELSE @,
           !.waits = Append(@, [expected |-> old, sleep_time |-> sleep_time,
                                called |-> called, now |-> now]),
           !.delta_idx = s.delta_idx + 1]

\* Lines 265-284: the drift-corrected wait, with `now` the clock reading of
\* line 268.
play_wait(s, delta_ticks, now, td) ==
    LET elapsed == now - s.last_time
        work_time == elapsed - s.old
        old == Expected(delta_ticks, s.mult_bpm, td)
        delta == s.delta + work_time
        sleep_time == IF delta > 0 THEN old - delta ELSE old
        called == sleep_time > 0
    IN  [s EXCEPT
           !.tick = (s.tick + delta_ticks) % U64Mod,
           !.last_time = now,
           !.old = old,
           !.delta = IF called THEN delta ELSE ClampDrift(delta),
           !.out = IF called THEN Append(@, DelayCall(sleep_time)) ELSE @,
           !.waits = Append(@, [expected |-> old, sleep_time |-> sleep_time,
                                called |-> called, now |-> now]),
           !.delta_idx = s.delta_idx + 1]

\* Whether the event at 0-based index s.i is followed by a wait (lines
\* 262-264).
PlayWaits(s, pm) ==
    /\ s.delta_idx < Len(pm.deltas)
    /\ pm.deltas[s.delta_idx + 1].idx = s.i

\* How far the index moves after an event.
PlayAdvance(i) == i + 1

\* One pass of the inner loop for the event at index s.i: dispatch, the wait
\* if the delta table has an entry for this index, and i += 1.
play_step(s, pm, now, td) ==
    LET s1 == play_dispatch(s, pm.events[s.i + 1])
        s2 == IF PlayWaits(s, pm)
              THEN play_wait(s1, pm.deltas[s.delta_idx + 1].ticks, now, td)
              ELSE s1
    IN  [s2 EXCEPT !.i = PlayAdvance(s.i)]

\* play_parsed_events as a whole, with rd the readings of get_time_100ns()
\* in call order.  r counts the readings used; the run is cut short, and
\* marked so, where a wait step finds no reading left (its event has been
\* dispatched by then).
RECURSIVE PlayRun(_, _, _, _, _)
PlayRun(s, pm, rd, r, td) ==
    IF s.i >= Len(pm.events) THEN [out |-> s.out, used |-> r, complete |-> TRUE]
    ELSE IF ~PlayWaits(s, pm) THEN PlayRun(play_step(s, pm, 0, td), pm, rd, r, td)
    ELSE IF r < Len(rd)
         THEN PlayRun(play_step(s, pm, rd[r + 1], td), pm, rd, r + 1, td)
         ELSE [out |-> play_dispatch(s, pm.events[s.i + 1]).out, used |-> r,
               complete |-> FALSE]

play_parsed_events(pm, td, rd) ==
    IF pm.events = <<>> THEN [out |-> <<>>, used |-> 0, complete |-> TRUE]
    ELSE IF rd = <<>> THEN [out |-> <<>>, used |-> 0, complete |-> FALSE]
    ELSE PlayRun(SchedStart(rd[1]), pm, rd, 1, td)

\* ------------------------------------------------------------------------
\* midi/player.rs : play_parsed_events_batched
\* ------------------------------------------------------------------------

\* A batch whose events carry their position in the batch as idx.
FillBatchLocalIdx(evs, next) ==
    LET last == Min(next + batch_size, Len(evs))
    IN  [k \in 1..(last - next) |->
            [idx |-> k - 1, data |-> evs[next + k].data,
             track |-> evs[next + k].track, is_tempo |-> evs[next + k].is_tempo]]

\* Lines 354-365: the buffer cleared, then filled with the next batch_size
\* events of the iterator (fewer at the end of the stream), each with its
\* stream index.  next is the number of events the iterator has yielded.
FillBatch(evs, next) ==
    LET last == Min(next + batch_size, Len(evs))
    IN  [k \in 1..(last - next) |->
            [idx |-> next + k - 1, data |-> evs[next + k].data,
             track |-> evs[next + k].track, is_tempo |-> evs[next + k].is_tempo]]

\* A producer that stops without forwarding its empty batch.
ForwardNonEmpty(q, buf) == IF buf = <<>> THEN q ELSE Append(q, buf)

\* Lines 367-374: parser_tx.send(buf), for the empty batch as for the others.
ForwardBatch(q, buf) == Append(q, buf)

\* A try_send that finds the queue full.
try_send_refused(len, cap) == [len |-> len, ok |-> FALSE]

\* Line 432: pool_tx.try_send(batch) on a queue of capacity cap holding len
\* buffers: the buffer is queued, or refused (and dropped by `let _ =`) when
\* the queue is full.
try_send(len, cap) ==
    IF len < cap THEN [len |-> len + 1, ok |-> TRUE] ELSE [len |-> len, ok |-> FALSE]

\* Lines 396-401.
batched_dispatch(s, ev) ==
    IF ev.is_tempo
    THEN [s EXCEPT !.mult_bpm = ev.data]
    ELSE [s EXCEPT !.out = Append(@, SinkCall(ev))]

\* The test of `while delta_idx < n_deltas` and of the break at lines
\* 405-407.
BatchedWaits(s, pm, ev) ==
    /\ s.delta_idx < Len(pm.deltas)
    /\ pm.deltas[s.delta_idx + 1].idx = ev.idx

\* Lines 409-428: the drift-corrected wait of the batched consumer.
batched_wait(s, delta_ticks, now, td) ==
    LET elapsed == now - s.last_time
        work_time == elapsed - s.old
        old == Expected(delta_ticks, s.mult_bpm, td)
        delta == s.delta + work_time
        sleep_time == IF delta > 0 THEN old - delta ELSE old
        called == sleep_time > 0
    IN  [s EXCEPT
           !.tick = (s.tick + delta_ticks) % U64Mod,
           !.last_time = now,
           !.old = old,
           !.delta = IF called THEN delta ELSE Min(delta, max_drift),
           !.out = IF called THEN Append(@, DelayCall(sleep_time)) ELSE @,
           !.waits = Append(@, [expected |-> old, sleep_time |-> sleep_time,
                                called |-> called, now |-> now]),
           !.delta_idx = s.delta_idx + 1]

\* ------------------------------------------------------------------------
\* midi/loader.rs : load_midi_file
\* ------------------------------------------------------------------------

\* "MThd", "MTrk"
MThd == <<77, 84, 104, 100>>

MTrk == <<77, 84, 114, 107>>

\* u16::from_be_bytes / u32::from_be_bytes
RECURSIVE from_be_bytes(_)
from_be_bytes(b) ==
    IF b = <<>> THEN 0
    ELSE from_be_bytes(SubSeq(b, 1, Len(b) - 1)) * 256 + b[Len(b)]

\* reader.read_exact of n bytes at pos: <<TRUE, bytes>>, or <<FALSE, <<>>>>
\* (an UnexpectedEof error) when the file has fewer than n bytes left.
read_exact(file, pos, n) ==
    IF pos + n <= Len(file)
    THEN <<TRUE, SubSeq(file, pos + 1, pos + n)>>
    ELSE <<FALSE, <<>>>>

\* The locals of load_midi_file.  result is "none" while it runs; returned
\* is what the caller gets from an Ok, and stays <<>> on an Err.
LoaderStart ==
    [pc |-> "tag", pos |-> 0, format |-> 0, num_tracks |-> 0, time_div |-> 0,
     tracks |-> <<>>, left |-> 0, broke |-> FALSE, result |-> "none",
     error |-> "", returned |-> <<>>]

\* return Err(..), also by the ? operator.
LoadErr(ld, kind) == [ld EXCEPT !.pc = "returned", !.result = "Err", !.error = kind]

\* A loader that accepts every time division.
SmpteTimingNever(time_div) == FALSE

\* Line 45: (time_div & 0x8000) != 0 on a u16.
SmpteTiming(time_div) == time_div >= 32768

\* Lines 14-21.
load_tag(ld, file) ==
    LET r == read_exact(file, ld.pos, 4)
    IN  IF ~r[1] THEN LoadErr(ld, "UnexpectedEof")
        ELSE IF r[2] # MThd
        THEN LoadErr([ld EXCEPT !.pos = ld.pos + 4], "Not a MIDI file")
        ELSE [ld EXCEPT !.pos = ld.pos + 4, !.pc = "header_len"]

\* Lines 24-32.
load_header_len(ld, file) ==
    LET r == read_exact(file, ld.pos, 4)
    IN  IF ~r[1] THEN LoadErr(ld, "UnexpectedEof")
        ELSE IF from_be_bytes(r[2]) # 6
        THEN LoadErr([ld EXCEPT !.pos = ld.pos + 4], "Invalid header length")
        ELSE [ld EXCEPT !.pos = ld.pos + 4, !.pc = "format"]

\* Lines 35-40: format, then the track count.
load_format(ld, file) ==
    LET r1 == read_exact(file, ld.pos, 2)
        r2 == read_exact(file, ld.pos + 2, 2)
    IN  IF ~r1[1] \/ ~r2[1] THEN LoadErr(ld, "UnexpectedEof")
        ELSE [ld EXCEPT !.pos = ld.pos + 4, !.pc = "time_div",
                        !.format = from_be_bytes(r1[2]),
                        !.num_tracks = from_be_bytes(r2[2])]

\* Lines 43-53.
load_time_div(ld, file) ==
    LET r == read_exact(file, ld.pos, 2)
    IN  IF ~r[1] THEN LoadErr(ld, "UnexpectedEof")
        ELSE IF SmpteTiming(from_be_bytes(r[2]))
        THEN LoadErr([ld EXCEPT !.pos = ld.pos + 2,
                                !.time_div = from_be_bytes(r[2])],
                     "SMPTE timing is not supported")
        ELSE [ld EXCEPT !.pos = ld.pos + 2, !.pc = "chunks",
                        !.time_div = from_be_bytes(r[2]),
                        !.left = ld.num_tracks]

\* A loop pass that steps over a chunk with an unknown tag (its tag, length
\* and data) and goes on with the next chunk.
load_chunk_skipping(ld, file) ==
    LET h == read_exact(file, ld.pos, 4)
        l == read_exact(file, ld.pos + 4, 4)
        length == from_be_bytes(l[2])
        d == read_exact(file, ld.pos + 8, length)
    IN  IF ~h[1] THEN LoadErr(ld, "UnexpectedEof")
        ELSE IF ~l[1] THEN LoadErr([ld EXCEPT !.pos = ld.pos + 4], "UnexpectedEof")
        ELSE IF ~d[1] THEN LoadErr([ld EXCEPT !.pos = ld.pos + 8], "UnexpectedEof")
        ELSE IF h[2] # MTrk
        THEN [ld EXCEPT !.pos = ld.pos + 8 + length, !.left = ld.left - 1]
        ELSE [ld EXCEPT !.pos = ld.pos + 8 + length,
                        !.left = ld.left - 1,
                        !.tracks = Append(@, LoadTrack(d[2]))]

\* Lines 56-77: one pass of `for _ in 0..num_tracks`.
load_chunk(ld, file) ==
    LET h == read_exact(file, ld.pos, 4)
        l == read_exact(file, ld.pos + 4, 4)
        length == from_be_bytes(l[2])
        d == read_exact(file, ld.pos + 8, length)
    IN  IF ~h[1] THEN LoadErr(ld, "UnexpectedEof")
        ELSE IF h[2] # MTrk THEN [ld EXCEPT !.pos = ld.pos + 4, !.broke = TRUE]
        ELSE IF ~l[1] THEN LoadErr([ld EXCEPT !.pos = ld.pos + 4], "UnexpectedEof")
        ELSE IF ~d[1] THEN LoadErr([ld EXCEPT !.pos = ld.pos + 8], "UnexpectedEof")
        ELSE [ld EXCEPT !.pos = ld.pos + 8 + length,
                        !.left = ld.left - 1,
                        !.tracks = Append(@, LoadTrack(d[2]))]

\* Line 80.
load_ok(ld) ==
    [ld EXCEPT !.pc = "returned", !.result = "Ok",
               !.returned = <<[tracks |-> ld.tracks, time_div |-> ld.time_div]>>]

\* ------------------------------------------------------------------------
\* kdmapi.rs : KDMAPIBinds::open_stream, Drop for KDMAPIStream
\* ------------------------------------------------------------------------

\* load_kdmapi_binds: each symbol is Some or None, is_stream_open is false.
\* streams counts the KDMAPIStream values alive; driver_open is the driver's
\* own state between InitializeKDMAPIStream and TerminateKDMAPIStream.
KdBinds(has_init, has_terminate) ==
    [loaded |-> TRUE, has_init |-> has_init, has_terminate |-> has_terminate,
     is_stream_open |-> FALSE, streams |-> 0, driver_open |-> FALSE]

\* open_stream, with init_result what InitializeKDMAPIStream returns if the
\* symbol is there (0 otherwise).  No line of it stores to is_stream_open.
\* Returns <<binds, result>>.
open_stream(k, init_result) ==
    IF k.is_stream_open THEN <<k, "Err: already open">>
    ELSE LET result == IF k.has_init THEN init_result ELSE 0
         IN  IF result = 0 THEN <<k, "Err: failed to initialize">>
             ELSE <<[k EXCEPT !.streams = k.streams + 1, !.driver_open = TRUE],
                    "Ok">>

\* Drop for KDMAPIStream.
drop_stream(k) ==
    [k EXCEPT !.driver_open = IF k.has_terminate THEN FALSE ELSE @,
              !.is_stream_open = FALSE,
              !.streams = k.streams - 1]

\* ------------------------------------------------------------------------
\* stats_logger.rs : StatsLogger
\* ------------------------------------------------------------------------

\* StatsLogger::new(fps).  history[i + 1] is the code's history[i];
\* panicked is set once a call has panicked.
NewStatsLogger(fps) ==
    [fps |-> fps, buffer_size |-> fps, history |-> [i \in 1..fps |-> 0],
     current_frame |-> 0, panicked |-> FALSE]

\* increment(by): fetch_add on an AtomicU32 wraps around on overflow.
increment(s, by) ==
    [s EXCEPT !.history[s.current_frame + 1] = (@ + by) % (U32_MAX + 1)]

\* A next_frame that keeps what the slot it moves to held.
next_frame_keeping(s) ==
    [s EXCEPT !.current_frame = (s.current_frame + 1) % s.buffer_size]

\* next_frame(): move to the next slot of the ring and store 0 in it.
next_frame(s) ==
    LET next == (s.current_frame + 1) % s.buffer_size
    IN  [s EXCEPT !.current_frame = next, !.history[next + 1] = 0]

\* get_eps(): the u32 sum of the slots.  The outcomes a build can produce:
\* <<v>> for a return of v, <<>> for the panic of an overflowing `+` where
\* overflow checks are compiled in; without them the sum wraps around.
get_eps(s) ==
    LET total == SumSeq(s.history)
    IN  IF total > U32_MAX
        THEN {<<>>, <<total % (U32_MAX + 1)>>}
        ELSE {<<total>>}

\* ------------------------------------------------------------------------
\* State
\* ------------------------------------------------------------------------
VARIABLES
    raw,            \* SpecTrack: the track chunk's bytes
    trk,            \* SpecTrack: parse_single_track's locals
    tpc,            \* SpecTrack: "loop" or "done"
    file_items,     \* SpecParse: the items each track chunk was written from
    chunks,         \* SpecParse: the bytes of each track chunk of the file
    tracks,         \* SpecParse: the loader's Vec<TrackData>
    time_div,       \* SpecParse: the header's time division
    track_results,  \* SpecParse: per track, <<>> or <<TrackEvents>>
    pphase,         \* SpecParse: position in parse_midi_events
    all_events,     \* SpecParse: the merged buffer
    build,          \* SpecParse: the locals of the delta-table loop
    parsed,         \* SpecParse: <<>> or <<ParsedMidi>>
    ppc,            \* SpecPlay: "idle", "running" or "drained"
    sched,          \* SpecPlay: the locals of play_parsed_events
    clock,          \* the monotonic clock, in units of 100 ns
    stalls,         \* the time that passed before each wait step's reading,
                    \* beyond the sleep requested by the wait step before it
    bpc,            \* SpecBatched: "idle", "running" or "returned"
    pool,           \* SpecBatched: number of buffers in the pool queue
    workq,          \* SpecBatched: the batches in the work queue
    prod,           \* SpecBatched: the producer thread
    cons,           \* SpecBatched: the consumer's position
    bsched,         \* SpecBatched: the consumer's scheduler locals
    readings,       \* SpecBatched: the consumer's clock readings, in order
    sent,           \* SpecBatched: the sizes of the batches forwarded
    dropped,        \* SpecBatched: buffers the pool queue refused
    rs_items,       \* SpecRunning: the events the two track chunks encode
    rs_run,         \* SpecRunning: parse_single_track on the running-status chunk
    rs_full,        \* SpecRunning: parse_single_track on the full-status chunk
    ld_in,          \* SpecLoad: the fields the file was written from
    ld_file,        \* SpecLoad: the bytes of the file
    ld,             \* SpecLoad: the locals of load_midi_file
    kd,             \* SpecKdmapi: the KDMAPIBinds and its live KDMAPIStreams
    kd_log,         \* SpecKdmapi: what each call returned, in order
    sl,             \* SpecStats: the StatsLogger
    sl_log          \* SpecStats: the calls made on it and what they returned

trackVars == <<raw, trk, tpc>>

playVars == <<ppc, sched, clock, stalls>>

batchVars == <<bpc, pool, workq, prod, cons, bsched, readings, sent, dropped>>

parseVars == <<file_items, chunks, tracks, time_div, track_results, pphase, all_events,
               build, parsed>>

runVars == <<rs_items, rs_run, rs_full>>

\* The variables of the specifications that follow SpecBatched.
loadVars == <<ld_in, ld_file, ld>>

kdVars == <<kd, kd_log>>

statsVars == <<sl, sl_log>>

auxVars == <<runVars, loadVars, kdVars, statsVars>>

vars == <<trackVars, parseVars, playVars, batchVars, auxVars>>

TrackIdle ==
    /\ raw = <<>>
    /\ trk = ParseStart(NewTrack(<<>>))
    /\ tpc = "idle"

ParseIdle ==
    /\ file_items = <<>>
    /\ chunks = <<>>
    /\ tracks = <<>>
    /\ time_div = 0
    /\ track_results = <<>>
    /\ pphase = "idle"
    /\ all_events = <<>>
    /\ build = BuildStart
    /\ parsed = <<>>

PlayIdle ==
    /\ ppc = "off"
    /\ sched = SchedStart(0)
    /\ clock = 0
    /\ stalls = <<>>

ProducerStart == [pc |-> "unspawned", next |-> 0, buf |-> <<>>]

ConsumerStart == [pc |-> "unstarted", batch |-> <<>>, pos |-> 0]

BatchIdle ==
    /\ bpc = "off"
    /\ pool = 0
    /\ workq = <<>>
    /\ prod = ProducerStart
    /\ cons = ConsumerStart
    /\ bsched = SchedStart(0)
    /\ readings = <<>>
    /\ sent = <<>>
    /\ dropped = 0

RunIdle ==
    /\ rs_items = <<>>
    /\ rs_run = ParseStart(NewTrack(<<>>))
    /\ rs_full = ParseStart(NewTrack(<<>>))

NoFile ==
    [tag |-> <<>>, header_len |-> 0, format |-> 0, num_tracks |-> 0,
     time_div |-> 0, chunks |-> <<>>, cut |-> 0]

LoadIdle ==
    /\ ld_in = NoFile
    /\ ld_file = <<>>
    /\ ld = [LoaderStart EXCEPT !.pc = "off"]

KdIdle ==
    /\ kd = [loaded |-> FALSE, has_init |-> FALSE, has_terminate |-> FALSE,
             is_stream_open |-> FALSE, streams |-> 0, driver_open |-> FALSE]
    /\ kd_log = <<>>

StatsIdle ==
    /\ sl = [fps |-> 0, buffer_size |-> 0, history |-> <<>>, current_frame |-> 0,
             panicked |-> FALSE]
    /\ sl_log = <<>>

AuxIdle == RunIdle /\ LoadIdle /\ KdIdle /\ StatsIdle

\* ------------------------------------------------------------------------
\* SpecTrack: parse_single_track over every short byte string
\* ------------------------------------------------------------------------

\* 0x00, 0x05, 0x81, 0x90, 0xC0, 0xFF, 0x2F
TrackBytes == {0, 5, 129, 144, 192, 255, 47}

ByteSeqs == UNION {[1..n -> TrackBytes] : n \in 0..MaxTrackLen}

InitTrack ==
    /\ raw \in ByteSeqs
    /\ trk = ParseStart(LoadTrack(raw))
    /\ tpc = "loop"
    /\ ParseIdle
    /\ PlayIdle
    /\ BatchIdle
    /\ AuxIdle

TrackIter ==
    /\ tpc = "loop"
    /\ trk.track.length > 0
    /\ Len(trk.events) < MaxEvents
    /\ trk' = ParseIter(trk, 0)
    /\ UNCHANGED <<raw, tpc, parseVars, playVars, batchVars, auxVars>>

TrackExit ==
    /\ tpc = "loop"
    /\ trk.track.length = 0
    /\ tpc' = "done"
    /\ UNCHANGED <<raw, trk, parseVars, playVars, batchVars, auxVars>>

NextTrack == TrackIter \/ TrackExit

SpecTrack == InitTrack /\ [][NextTrack]_vars

\* SpecLong: the same loop on raw tracks over bytes that make meta and
\* system-exclusive events with short and long declared lengths.
\* 0x00, 0x03, 0x81, 0xF0, 0xFF, 0x2F
LongBytes == {0, 3, 129, 240, 255, 47}

LongByteSeqs == UNION {[1..n -> LongBytes] : n \in 0..MaxTrackLen}

InitLong ==
    /\ raw \in LongByteSeqs
    /\ trk = ParseStart(LoadTrack(raw))
    /\ tpc = "loop"
    /\ ParseIdle
    /\ PlayIdle
    /\ BatchIdle
    /\ AuxIdle

SpecLong == InitLong /\ [][NextTrack]_vars

\* ------------------------------------------------------------------------
\* SpecParse: load + parse_midi_events over two-track files
\* ------------------------------------------------------------------------

\* Delta times: 0 and 480 (0x83 0x60).
DeltaFrags == {<<0>>, <<131, 96>>}

NoteOnC4 == <<144, 60, 100>>

NoteOnD4 == <<144, 62, 80>>

\* FF 51 03 07 A1 20: tempo 500000
Tempo500000 == <<255, 81, 3, 7, 161, 32>>

\* FF 51 03 07 53 00: tempo 480000
Tempo480000 == <<255, 81, 3, 7, 83, 0>>

\* FF 01 00: an empty text meta event
TextMeta == <<255, 1, 0>>

\* FF 2F 00
EndOfTrack == <<255, 47, 0>>

EventFrags == {NoteOnC4, NoteOnD4, Tempo500000, Tempo480000, TextMeta}

\* An item is a delta time and the event that follows it.
Items == [d : DeltaFrags, e : EventFrags]

ItemSeqs(n) == UNION {[1..k -> Items] : k \in 0..n}

\* A track chunk: its items, then an end-of-track event at delta 0.
ChunkOf(items) ==
    Flatten([k \in 1..Len(items) |-> items[k].d \o items[k].e])
    \o <<0>> \o EndOfTrack

\* Time divisions the loader accepts (top bit clear).
TimeDivs == {0, 480}

InitParse ==
    /\ \E a \in ItemSeqs(MaxItems) : \E b \in ItemSeqs(MaxItems - Len(a)) :
          file_items = <<a, b>>
    /\ chunks = [k \in 1..Len(file_items) |-> ChunkOf(file_items[k])]
    /\ tracks = [k \in 1..Len(chunks) |-> LoadTrack(chunks[k])]
    /\ time_div \in TimeDivs
    /\ track_results = [k \in 1..Len(chunks) |-> <<>>]
    /\ pphase = "parsing"
    /\ all_events = <<>>
    /\ build = BuildStart
    /\ parsed = <<>>
    /\ TrackIdle
    /\ PlayIdle
    /\ BatchIdle
    /\ AuxIdle

\* A collect() that stores the results in the order the tasks return.
CollectAsCompleted(results, k, r) ==
    LET free == CHOOSE j \in 1..Len(results) :
                   /\ results[j] = <<>>
                   /\ \A h \in 1..(j - 1) : results[h] # <<>>
    IN  [results EXCEPT ![free] = <<r>>]

\* Lines 112-129: collect() on the indexed parallel iterator stores the
\* result of task k at position k, whenever the task returns.
Collect(results, k, r) == [results EXCEPT ![k] = <<r>>]

\* One task of the parallel map: parse_single_track(track, idx, time_div).
\* The tasks run in any order; collect() stores each result at its index.
ParseTrack(k) ==
    /\ pphase = "parsing"
    /\ track_results[k] = <<>>
    /\ track_results' =
          Collect(track_results, k, parse_single_track(tracks[k], k - 1))
    /\ UNCHANGED <<file_items, chunks, tracks, time_div, pphase, all_events, build, parsed,
                   trackVars, playVars, batchVars, auxVars>>

\* Lines 135-162: concatenate and sort, once every task has returned.
Merge ==
    /\ pphase = "parsing"
    /\ \A k \in 1..Len(track_results) : track_results[k] # <<>>
    /\ all_events' = par_sort_by_key(
          MergeOrder([k \in 1..Len(track_results) |-> track_results[k][1]]))
    /\ pphase' = "building"
    /\ UNCHANGED <<file_items, chunks, tracks, time_div, track_results, build, parsed,
                   trackVars, playVars, batchVars, auxVars>>

\* One iteration of the delta-table loop, or the panic of its division.
BuildEvent ==
    /\ pphase = "building"
    /\ build.i < Len(all_events)
    /\ LET e == all_events[build.i + 1]
       IN  IF BuildPanics(build, e, time_div)
           THEN pphase' = "panicked" /\ UNCHANGED build
           ELSE build' = BuildIter(build, e, time_div) /\ UNCHANGED pphase
    /\ UNCHANGED <<file_items, chunks, tracks, time_div, track_results, all_events, parsed,
                   trackVars, playVars, batchVars, auxVars>>

\* Lines 194-217: the ParsedMidi is returned.
BuildFinish ==
    /\ pphase = "building"
    /\ build.i = Len(all_events)
    /\ parsed' = <<FinishParsed(build,
                     [k \in 1..Len(track_results) |-> track_results[k][1]])>>
    /\ pphase' = "done"
    /\ UNCHANGED <<file_items, chunks, tracks, time_div, track_results, all_events, build,
                   trackVars, playVars, batchVars, auxVars>>

NextParse ==
    \/ \E k \in 1..Len(track_results) : ParseTrack(k)
    \/ Merge
    \/ BuildEvent
    \/ BuildFinish

SpecParse == InitParse /\ [][NextParse]_vars

\* SpecNotes: the same steps on two-track files of channel messages around
\* the note-on range, at time division 480.

\* 0x8F note-off (channel 16) with velocity 64
NoteOffCh16 == <<143, 60, 64>>

\* 0x90 note-on with velocity 0
NoteOnSilent == <<144, 60, 0>>

\* 0x9F note-on (channel 16) with velocity 1
NoteOnCh16 == <<159, 62, 1>>

\* 0xA0 polyphonic key pressure
PolyPressure == <<160, 60, 100>>

NoteEventFrags == {NoteOffCh16, NoteOnSilent, NoteOnC4, NoteOnCh16, PolyPressure}

NoteItems == [d : DeltaFrags, e : NoteEventFrags]

NoteItemSeqs(n) == UNION {[1..k -> NoteItems] : k \in 0..n}

InitNotes ==
    /\ \E a \in NoteItemSeqs(MaxItems) : \E b \in NoteItemSeqs(MaxItems - Len(a)) :
          file_items = <<a, b>>
    /\ chunks = [k \in 1..Len(file_items) |-> ChunkOf(file_items[k])]
    /\ tracks = [k \in 1..Len(chunks) |-> LoadTrack(chunks[k])]
    /\ time_div = 480
    /\ track_results = [k \in 1..Len(chunks) |-> <<>>]
    /\ pphase = "parsing"
    /\ all_events = <<>>
    /\ build = BuildStart
    /\ parsed = <<>>
    /\ TrackIdle
    /\ PlayIdle
    /\ BatchIdle
    /\ AuxIdle

SpecNotes == InitNotes /\ [][NextParse]_vars

\* ------------------------------------------------------------------------
\* SpecPlay: play_parsed_events on the ParsedMidi of one-track files
\* ------------------------------------------------------------------------

\* FF 51 03 00 12 C0: tempo 4800
Tempo4800 == <<255, 81, 3, 0, 18, 192>>

PlayEventFrags == {NoteOnC4, Tempo480000, Tempo4800}

PlayItems == [d : DeltaFrags, e : PlayEventFrags]

PlayItemSeqs == UNION {[1..k -> PlayItems] : k \in 0..MaxPlayItems}

\* Time that passes, beyond the requested sleep, before a wait step reads the
\* clock: none, less than max_drift, more than any expected interval.
Stalls == {0, 60000, 6000000}

\* The state main() is in after load_midi_file and parse_midi_events.
ParsedFile(items, td) ==
    /\ file_items = items
    /\ chunks = [k \in 1..Len(items) |-> ChunkOf(items[k])]
    /\ tracks = [k \in 1..Len(items) |-> LoadTrack(chunks[k])]
    /\ time_div = td
    /\ track_results =
          [k \in 1..Len(items) |-> <<parse_single_track(tracks[k], k - 1)>>]
    /\ all_events = par_sort_by_key(
          MergeOrder([k \in 1..Len(items) |-> track_results[k][1]]))
    /\ build = BuildLoop(BuildStart, all_events, td)
    /\ parsed = <<parse_midi_events(tracks, td)>>
    /\ pphase = "done"

InitPlay ==
    /\ \E a \in PlayItemSeqs : ParsedFile(<<a>>, 480)
    /\ ppc = "idle"
    /\ sched = SchedStart(0)
    /\ clock = 0
    /\ stalls = <<>>
    /\ TrackIdle
    /\ BatchIdle
    /\ AuxIdle

\* Lines 226-247: return on an empty stream, else read the clock and enter
\* the loop.
PlayStart ==
    /\ ppc = "idle"
    /\ IF parsed[1].events = <<>>
       THEN ppc' = "drained" /\ UNCHANGED sched
       ELSE ppc' = "running" /\ sched' = SchedStart(clock)
    /\ UNCHANGED <<clock, stalls, trackVars, parseVars, batchVars, auxVars>>

\* One pass of the inner loop (lines 250-294) and the loop tests after it.
\* The delay function sleeps for the time it is asked.
PlayEvent ==
    /\ ppc = "running"
    /\ \E stall \in (IF PlayWaits(sched, parsed[1]) THEN Stalls ELSE {0}) :
          LET now == clock + stall
              s == play_step(sched, parsed[1], now, time_div)
              w == s.waits[Len(s.waits)]
          IN  /\ sched' = s
              /\ IF PlayWaits(sched, parsed[1])
                 THEN /\ clock' = IF w.called THEN now + w.sleep_time ELSE now
                      /\ stalls' = Append(stalls, stall)
                 ELSE UNCHANGED <<clock, stalls>>
              /\ ppc' = IF s.i >= Len(parsed[1].events) THEN "drained"
                        ELSE "running"
    /\ UNCHANGED <<trackVars, parseVars, batchVars, auxVars>>

NextPlay == PlayStart \/ PlayEvent

SpecPlay == InitPlay /\ [][NextPlay]_vars

\* ------------------------------------------------------------------------
\* SpecBatched: play_parsed_events_batched on the ParsedMidi of one-track
\* files.  FairSpecBatched adds the scheduling of the two threads.
\* ------------------------------------------------------------------------

BatchEventFrags == {NoteOnC4, Tempo4800}

BatchItems == [d : DeltaFrags, e : BatchEventFrags]

BatchItemSeqs == UNION {[1..k -> BatchItems] : k \in 0..MaxBatchItems}

InitBatched ==
    /\ \E a \in BatchItemSeqs : ParsedFile(<<a>>, 480)
    /\ bpc = "idle"
    /\ pool = 0
    /\ workq = <<>>
    /\ prod = ProducerStart
    /\ cons = ConsumerStart
    /\ bsched = SchedStart(0)
    /\ readings = <<>>
    /\ sent = <<>>
    /\ dropped = 0
    /\ clock = 0
    /\ stalls = <<>>
    /\ ppc = "off"
    /\ sched = SchedStart(0)
    /\ TrackIdle
    /\ AuxIdle

\* Lines 316-387: return on an empty stream; else the pool is prefilled, the
\* producer spawned and the consumer's locals set (one clock reading).
BatchedStart ==
    /\ bpc = "idle"
    /\ IF parsed[1].events = <<>>
       THEN /\ bpc' = "returned"
            /\ UNCHANGED <<pool, prod, cons, bsched, readings>>
       ELSE /\ bpc' = "running"
            /\ pool' = lookahead_batches
            /\ prod' = [ProducerStart EXCEPT !.pc = "recv"]
            /\ cons' = [ConsumerStart EXCEPT !.pc = "recv"]
            /\ bsched' = SchedStart(clock)
            /\ readings' = <<clock>>
    /\ UNCHANGED <<workq, sent, dropped, clock, stalls, ppc, sched, trackVars,
                   parseVars, auxVars>>

\* Producer, lines 349-365: a buffer is taken from the pool (the thread
\* blocks while the pool is empty) and filled.
ProdRecv ==
    /\ prod.pc = "recv"
    /\ pool > 0
    /\ pool' = pool - 1
    /\ LET buf == FillBatch(parsed[1].events, prod.next)
       IN  prod' = [pc |-> "send", next |-> prod.next + Len(buf), buf |-> buf]
    /\ UNCHANGED <<bpc, workq, cons, bsched, readings, sent, dropped, clock,
                   stalls, ppc, sched, trackVars, parseVars, auxVars>>

\* Producer, lines 367-374: the batch is sent (the thread blocks while the
\* work queue is full); after an empty batch the thread ends.
ProdSend ==
    /\ prod.pc = "send"
    /\ Len(workq) < lookahead_batches
    /\ workq' = ForwardBatch(workq, prod.buf)
    /\ sent' = Append(sent, Len(prod.buf))
    /\ prod' = [prod EXCEPT !.pc = IF prod.buf = <<>> THEN "done" ELSE "recv",
                            !.buf = <<>>]
    /\ UNCHANGED <<bpc, pool, cons, bsched, readings, dropped, clock, stalls,
                   ppc, sched, trackVars, parseVars, auxVars>>

\* Consumer, lines 390-393: a batch is received (the thread blocks while the
\* work queue is empty); an empty batch ends the loop.
ConsRecv ==
    /\ cons.pc = "recv"
    /\ workq # <<>>
    /\ workq' = Tail(workq)
    /\ cons' = IF Head(workq) = <<>>
               THEN [pc |-> "done", batch |-> <<>>, pos |-> 0]
               ELSE [pc |-> "dispatch", batch |-> Head(workq), pos |-> 0]
    /\ UNCHANGED <<bpc, pool, prod, bsched, readings, sent, dropped, clock,
                   stalls, ppc, sched, trackVars, parseVars, auxVars>>

\* Consumer, lines 395-401: the next event of the batch is dispatched.
ConsDispatch ==
    /\ cons.pc = "dispatch"
    /\ cons.pos < Len(cons.batch)
    /\ bsched' = batched_dispatch(bsched, cons.batch[cons.pos + 1])
    /\ cons' = [cons EXCEPT !.pc = "waits"]
    /\ UNCHANGED <<bpc, pool, workq, prod, readings, sent, dropped, clock,
                   stalls, ppc, sched, trackVars, parseVars, auxVars>>

\* Consumer, lines 403-429: one pass of the while loop that waits.  The
\* delay function sleeps for the time it is asked.
ConsWait ==
    /\ cons.pc = "waits"
    /\ BatchedWaits(bsched, parsed[1], cons.batch[cons.pos + 1])
    /\ \E stall \in Stalls :
          LET now == clock + stall
              s == batched_wait(bsched, parsed[1].deltas[bsched.delta_idx + 1].ticks,
                                now, time_div)
              w == s.waits[Len(s.waits)]
          IN  /\ bsched' = s
              /\ readings' = Append(readings, now)
              /\ stalls' = Append(stalls, stall)
              /\ clock' = IF w.called THEN now + w.sleep_time ELSE now
    /\ UNCHANGED <<bpc, pool, workq, prod, cons, sent, dropped, ppc, sched,
                   trackVars, parseVars, auxVars>>

\* Consumer: the while loop is left and the for loop moves on.
ConsNext ==
    /\ cons.pc = "waits"
    /\ ~BatchedWaits(bsched, parsed[1], cons.batch[cons.pos + 1])
    /\ cons' = [cons EXCEPT !.pc = "dispatch", !.pos = cons.pos + 1]
    /\ UNCHANGED <<bpc, pool, workq, prod, bsched, readings, sent, dropped,
                   clock, stalls, ppc, sched, trackVars, parseVars, auxVars>>

\* Consumer, lines 431-432: the batch is cleared and offered to the pool
\* without blocking; a full pool would drop it.
ConsReturn ==
    /\ cons.pc = "dispatch"
    /\ cons.pos = Len(cons.batch)
    /\ LET r == try_send(pool, lookahead_batches)
       IN  /\ pool' = r.len
           /\ dropped' = IF r.ok THEN dropped ELSE dropped + 1
    /\ cons' = [pc |-> "recv", batch |-> <<>>, pos |-> 0]
    /\ UNCHANGED <<bpc, workq, prod, bsched, readings, sent, clock, stalls,
                   ppc, sched, trackVars, parseVars, auxVars>>

\* The end of thread::scope: both threads have ended.
BatchedReturn ==
    /\ bpc = "running"
    /\ prod.pc = "done"
    /\ cons.pc = "done"
    /\ bpc' = "returned"
    /\ UNCHANGED <<pool, workq, prod, cons, bsched, readings, sent, dropped,
                   clock, stalls, ppc, sched, trackVars, parseVars, auxVars>>

Producer == ProdRecv \/ ProdSend

Consumer ==
    BatchedStart \/ ConsRecv \/ ConsDispatch \/ ConsWait \/ ConsNext
       \/ ConsReturn \/ BatchedReturn

NextBatched == Producer \/ Consumer

SpecBatched == InitBatched /\ [][NextBatched]_vars

\* Each thread runs when it can: the OS schedules both, and the delay
\* function returns.
FairSpecBatched ==
    InitBatched /\ [][NextBatched]_vars /\ WF_vars(Producer) /\ WF_vars(Consumer)

\* ------------------------------------------------------------------------
\* SpecRunning: parse_single_track on two encodings of the same events, one
\* with running status and one with a status byte on every message.
\* ------------------------------------------------------------------------

\* 0x80 note off, 0xC0 program change (one data byte)
NoteOffC4 == <<128, 60, 0>>

ProgramChange == <<192, 5>>

RunEventFrags == {NoteOnC4, NoteOnD4, NoteOffC4, ProgramChange, TextMeta}

RunItems == [d : DeltaFrags, e : RunEventFrags]

RunItemSeqs == UNION {[1..k -> RunItems] : k \in 0..MaxRunItems}

\* Whether item k may use running status: the event before it in the chunk
\* is a channel message with the same status byte.  (A meta event ends
\* running status in a Standard MIDI File.)
RunsOn(items, k) ==
    /\ k > 1
    /\ items[k].e[1] < 240
    /\ items[k - 1].e[1] = items[k].e[1]

\* The chunk with each status byte given once, then omitted.
RunningChunkOf(items) ==
    Flatten([k \in 1..Len(items) |->
                items[k].d \o (IF RunsOn(items, k) THEN Tail(items[k].e)
                                                   ELSE items[k].e)])
    \o <<0>> \o EndOfTrack

\* What the actions of SpecRunning leave alone.
runFrame ==
    <<trackVars, parseVars, playVars, batchVars, loadVars, kdVars, statsVars>>

InitRunning ==
    /\ \E items \in RunItemSeqs :
          /\ rs_items = items
          /\ rs_run = ParseStart(LoadTrack(RunningChunkOf(items)))
          /\ rs_full = ParseStart(LoadTrack(ChunkOf(items)))
    /\ TrackIdle
    /\ ParseIdle
    /\ PlayIdle
    /\ BatchIdle
    /\ LoadIdle
    /\ KdIdle
    /\ StatsIdle

\* One pass of parse_single_track's loop on the running-status chunk.
RunningIter ==
    /\ rs_run.track.length > 0
    /\ rs_run' = ParseIter(rs_run, 0)
    /\ UNCHANGED <<rs_items, rs_full, runFrame>>

\* One pass of parse_single_track's loop on the full-status chunk.
FullIter ==
    /\ rs_full.track.length > 0
    /\ rs_full' = ParseIter(rs_full, 0)
    /\ UNCHANGED <<rs_items, rs_run, runFrame>>

NextRunning == RunningIter \/ FullIter

SpecRunning == InitRunning /\ [][NextRunning]_vars

\* ------------------------------------------------------------------------
\* SpecLoad: load_midi_file on files written from header fields and chunks,
\* whole or cut short.
\* ------------------------------------------------------------------------

\* "RIFF", "XFIH"
RIFF == <<82, 73, 70, 70>>

XFIH == <<88, 70, 73, 72>>

BE16(n) == <<(n \div 256) % 256, n % 256>>

BE32(n) == <<(n \div 16777216) % 256, (n \div 65536) % 256>> \o BE16(n)

LoadTags == {MThd, RIFF}

\* 5, 6, and 0x0106 whose low byte is 6
HeaderLens == {5, 6, 262}

\* 0, 480, 0x8000, 0xE728 (SMPTE 25 frames, 40 ticks)
LoadTimeDivs == {0, 480, 32768, 59176}

LoadChunks ==
    {[tag |-> MTrk, data |-> <<0>> \o EndOfTrack],
     [tag |-> MTrk, data |-> <<0>> \o NoteOnC4 \o <<0>> \o EndOfTrack],
     [tag |-> XFIH, data |-> <<>>]}

LoadChunkSeqs == UNION {[1..k -> LoadChunks] : k \in 0..MaxLoadTracks}

\* Bytes missing at the end of the file.
LoadCuts == {0, 3}

FileBytes(in) ==
    LET whole == in.tag \o BE32(in.header_len) \o BE16(in.format)
                 \o BE16(in.num_tracks) \o BE16(in.time_div)
                 \o Flatten([k \in 1..Len(in.chunks) |->
                                in.chunks[k].tag \o BE32(Len(in.chunks[k].data))
                                \o in.chunks[k].data])
    IN  SubSeq(whole, 1, Len(whole) - in.cut)

InitLoad ==
    /\ \E tag \in LoadTags, hl \in HeaderLens, nt \in 0..MaxLoadTracks,
          td \in LoadTimeDivs, cs \in LoadChunkSeqs, cut \in LoadCuts :
          /\ ld_in = [tag |-> tag, header_len |-> hl, format |-> 1,
                      num_tracks |-> nt, time_div |-> td, chunks |-> cs,
                      cut |-> cut]
          /\ ld_file = FileBytes(ld_in)
    /\ ld = LoaderStart
    /\ TrackIdle
    /\ ParseIdle
    /\ PlayIdle
    /\ BatchIdle
    /\ RunIdle
    /\ KdIdle
    /\ StatsIdle

\* What the actions of SpecLoad leave alone.
loadFrame ==
    <<ld_in, ld_file, trackVars, parseVars, playVars, batchVars, runVars, kdVars,
      statsVars>>

LoadTag ==
    /\ ld.pc = "tag"
    /\ ld' = load_tag(ld, ld_file)
    /\ UNCHANGED loadFrame

LoadHeaderLen ==
    /\ ld.pc = "header_len"
    /\ ld' = load_header_len(ld, ld_file)
    /\ UNCHANGED loadFrame

LoadFormat ==
    /\ ld.pc = "format"
    /\ ld' = load_format(ld, ld_file)
    /\ UNCHANGED loadFrame

LoadTimeDiv ==
    /\ ld.pc = "time_div"
    /\ ld' = load_time_div(ld, ld_file)
    /\ UNCHANGED loadFrame

LoadChunk ==
    /\ ld.pc = "chunks"
    /\ ld.left > 0
    /\ ~ld.broke
    /\ ld' = load_chunk(ld, ld_file)
    /\ UNCHANGED loadFrame

LoadOk ==
    /\ ld.pc = "chunks"
    /\ ld.left = 0 \/ ld.broke
    /\ ld' = load_ok(ld)
    /\ UNCHANGED loadFrame

NextLoad ==
    LoadTag \/ LoadHeaderLen \/ LoadFormat \/ LoadTimeDiv \/ LoadChunk \/ LoadOk

SpecLoad == InitLoad /\ [][NextLoad]_vars

\* ------------------------------------------------------------------------
\* SpecKdmapi: calls of open_stream and drops of the streams it returned.
\* ------------------------------------------------------------------------

\* What InitializeKDMAPIStream returns: 0 for failure.
InitResults == {0, 1}

InitKdmapi ==
    /\ \E hi, ht \in BOOLEAN : kd = KdBinds(hi, ht)
    /\ kd_log = <<>>
    /\ TrackIdle
    /\ ParseIdle
    /\ PlayIdle
    /\ BatchIdle
    /\ RunIdle
    /\ LoadIdle
    /\ StatsIdle

\* What the actions of SpecKdmapi leave alone.
kdFrame ==
    <<trackVars, parseVars, playVars, batchVars, runVars, loadVars, statsVars>>

OpenStream ==
    /\ kd.loaded
    /\ Len(kd_log) < MaxKdCalls
    /\ \E init_result \in InitResults :
          LET r == open_stream(kd, init_result)
          IN  /\ kd' = r[1]
              /\ kd_log' = Append(kd_log, r[2])
    /\ UNCHANGED kdFrame

DropStream ==
    /\ kd.loaded
    /\ Len(kd_log) < MaxKdCalls
    /\ kd.streams > 0
    /\ kd' = drop_stream(kd)
    /\ kd_log' = Append(kd_log, "dropped")
    /\ UNCHANGED kdFrame

NextKdmapi == OpenStream \/ DropStream

SpecKdmapi == InitKdmapi /\ [][NextKdmapi]_vars

\* ------------------------------------------------------------------------
\* SpecStats: calls of increment, next_frame and get_eps on one StatsLogger,
\* made one after the other as the logger thread of main makes them.
\* ------------------------------------------------------------------------

\* Values passed to increment: 1 and u32::MAX.
Increments == {1, U32_MAX}

InitStats ==
    /\ \E fps \in 1..MaxFps : sl = NewStatsLogger(fps)
    /\ sl_log = <<>>
    /\ TrackIdle
    /\ ParseIdle
    /\ PlayIdle
    /\ BatchIdle
    /\ RunIdle
    /\ LoadIdle
    /\ KdIdle

\* What the actions of SpecStats leave alone.
statsFrame ==
    <<trackVars, parseVars, playVars, batchVars, runVars, loadVars, kdVars>>

\* A call can be made: the thread has not panicked.
StatsCallable == ~sl.panicked /\ Len(sl_log) < MaxStatCalls

Increment ==
    /\ StatsCallable
    /\ \E by \in Increments :
          /\ sl' = increment(sl, by)
          /\ sl_log' = Append(sl_log, [op |-> "increment", by |-> by, ret |-> <<>>])
    /\ UNCHANGED statsFrame

NextFrame ==
    /\ StatsCallable
    /\ sl' = next_frame(sl)
    /\ sl_log' = Append(sl_log, [op |-> "next_frame", by |-> 0, ret |-> <<>>])
    /\ UNCHANGED statsFrame

GetEps ==
    /\ StatsCallable
    /\ \E r \in get_eps(sl) :
          /\ sl' = [sl EXCEPT !.panicked = (r = <<>>)]
          /\ sl_log' = Append(sl_log, [op |-> "get_eps", by |-> 0, ret |-> r])
    /\ UNCHANGED statsFrame

NextStats == Increment \/ NextFrame \/ GetEps

SpecStats == InitStats /\ [][NextStats]_vars

\* ------------------------------------------------------------------------
\* Properties of parse_single_track (SpecTrack)
\* ------------------------------------------------------------------------

\* C2: a track stops being parsed once its cursor has reached the end of its
\* bytes: from a loop test made with nothing left to read, the parser's next
\* step is to leave the loop (so the event list stays finite).
C2_StopsWhenBytesExhausted ==
    [][(tpc = "loop" /\ trk.track.offset >= trk.track.length)
          => tpc' = "done"]_vars

\* ------------------------------------------------------------------------
\* Properties of parse_midi_events (SpecParse)
\* ------------------------------------------------------------------------

Merged == pphase \in {"building", "panicked", "done"}

IdxSet(s) == 1..Len(s)

\* The end-to-end file of the specification: track A has a note-on C4 at
\* tick 0, track B a tempo of 500000 at tick 0 and a note-on D4 at tick 480.
E2EItems ==
    << <<[d |-> <<0>>, e |-> NoteOnC4]>>,
       <<[d |-> <<0>>, e |-> Tempo500000], [d |-> <<131, 96>>, e |-> NoteOnD4]>> >>

\* 0x90 | 60 << 8 | 100 << 16  and  0x90 | 62 << 8 | 80 << 16
E2EEvents ==
    << [data |-> 500000, is_tempo |-> TRUE],
       [data |-> 144 + 60 * 256 + 100 * 65536, is_tempo |-> FALSE],
       [data |-> 144 + 62 * 256 + 80 * 65536, is_tempo |-> FALSE] >>

\* C1: parsing the end-to-end file at time division 480 yields the events
\* [TempoChange(500000), NoteOn C4, NoteOn D4], the delta table
\* [(index 1, delta 480)], total_ticks 480, a duration of 500 ms and
\* note_count 2.
C1_EndToEnd ==
    (pphase = "done" /\ file_items = E2EItems /\ time_div = 480)
       => /\ [k \in IdxSet(parsed[1].events) |->
                [data |-> parsed[1].events[k].data,
                 is_tempo |-> parsed[1].events[k].is_tempo]] = E2EEvents
          /\ parsed[1].deltas = <<[idx |-> 1, ticks |-> 480]>>
          /\ parsed[1].total_ticks = 480
          /\ parsed[1].total_duration = 500000
          /\ parsed[1].note_count = 2

\* C3: parse_midi_events never panics on a loaded file, whatever the time
\* division the loader accepted (0 included).
C3_NoPanic == pphase # "panicked"

\* C4: in the merged stream a Tempo Change precedes every Channel Message of
\* the same tick, whichever tracks the two came from.
C4_TempoBeforeChannel ==
    Merged =>
       \A i, j \in IdxSet(all_events) :
          (/\ all_events[i].tick = all_events[j].tick
           /\ all_events[i].is_tempo
           /\ ~all_events[j].is_tempo) => i < j

\* C4's case: a channel message of track 0 and a tempo change that can only
\* come from track 1 share a tick.
C4_Witness ==
    /\ pphase = "done"
    /\ track_results[1][1].tempo_changes = <<>>
    /\ \E i, j \in IdxSet(all_events) :
          /\ all_events[i].tick = all_events[j].tick
          /\ all_events[i].is_tempo
          /\ ~all_events[j].is_tempo
          /\ all_events[j].track = 0

TickSet == {all_events[i].tick : i \in IdxSet(all_events)}

SetMax(S) == CHOOSE m \in S : \A x \in S : x <= m

SetMin(S) == CHOOSE m \in S : \A x \in S : m <= x

\* The advance that leads to tick t from the distinct tick before it.
AdvanceTo(t) == t - SetMax({u \in TickSet : u < t})

\* The sum of the tick deltas of the delta table.
DeltaSum == SumSeq([k \in IdxSet(parsed[1].deltas) |-> parsed[1].deltas[k].ticks])

\* The sum, over the ticks of S, of the advance to each, capped.
RECURSIVE CappedAdvanceSum(_)
CappedAdvanceSum(S) ==
    IF S = {} THEN 0
    ELSE LET t == CHOOSE y \in S : TRUE
         IN  Min(AdvanceTo(t), U32_MAX) + CappedAdvanceSum(S \ {t})

\* C5 as stated: with K >= 1 distinct ticks the delta table has K-1 entries
\* and its tick deltas sum to (largest tick - smallest tick).
C5_DeltaSumIsSpan ==
    (pphase = "done" /\ all_events # <<>>)
       => /\ Len(parsed[1].deltas) = Cardinality(TickSet) - 1
          /\ DeltaSum = SetMax(TickSet) - SetMin(TickSet)

\* C5 as amended: with K >= 1 distinct ticks the delta table has K-1
\* entries; each advance between consecutive distinct ticks is recorded
\* capped at the u32 maximum, so the deltas sum to the sum of the capped
\* advances, which is (largest tick - smallest tick) when no advance exceeds
\* the cap.
C5_DeltaSumIsCappedSpan ==
    (pphase = "done" /\ all_events # <<>>)
       => /\ Len(parsed[1].deltas) = Cardinality(TickSet) - 1
          /\ DeltaSum = CappedAdvanceSum(TickSet \ {SetMin(TickSet)})
          /\ (\A t \in TickSet \ {SetMin(TickSet)} : AdvanceTo(t) <= U32_MAX)
                => DeltaSum = SetMax(TickSet) - SetMin(TickSet)

\* C5's case: three distinct ticks, the first of them above 0, and an
\* advance beyond the cap.
C5_Witness ==
    /\ pphase = "done"
    /\ Cardinality(TickSet) >= 2
    /\ SetMin(TickSet) > 0
    /\ \E t \in TickSet \ {SetMin(TickSet)} : AdvanceTo(t) > U32_MAX

FragTicks(d) == IF d = <<0>> THEN 0 ELSE 480

IsTempoFrag(e) == e[1] = 255 /\ e[2] = 81

\* The tick at which item n of a track is read.
RECURSIVE ItemTick(_, _)
ItemTick(items, n) ==
    IF n = 0 THEN 0 ELSE ItemTick(items, n - 1) + FragTicks(items[n].d)

\* The tempo meta events of the file: <<track, item>> positions.
TempoMetas ==
    {p \in {<<k, n>> : k \in IdxSet(file_items), n \in 1..MaxItems} :
        /\ p[2] <= Len(file_items[p[1]])
        /\ IsTempoFrag(file_items[p[1]][p[2]].e)}

MetaTick(p) == ItemTick(file_items[p[1]], p[2])

MetaValue(p) ==
    LET e == file_items[p[1]][p[2]].e
    IN  e[4] * 65536 + e[5] * 256 + e[6]

\* C6: every tempo meta event read at tick t yields one Tempo Change event
\* (t, value) of the merged stream: for each (tick, value) the stream holds
\* as many Tempo Changes as the file holds tempo meta events.
C6_EveryTempoMetaYieldsEvent ==
    Merged =>
       \A p \in TempoMetas :
          Cardinality({i \in IdxSet(all_events) :
                          /\ all_events[i].is_tempo
                          /\ all_events[i].tick = MetaTick(p)
                          /\ all_events[i].data = MetaValue(p)})
             = Cardinality({q \in TempoMetas :
                              /\ MetaTick(q) = MetaTick(p)
                              /\ MetaValue(q) = MetaValue(p)})

\* ------------------------------------------------------------------------
\* Properties of play_parsed_events (SpecPlay)
\* ------------------------------------------------------------------------

IsSink(c) == c.kind = "sink"

IsDelay(c) == c.kind = "delay"

IsChannel(e) == ~e.is_tempo

\* The sink calls the first n events of the stream call for.
SinkCallsOf(evs, n) ==
    LET ch == SelectSeq(SubSeq(evs, 1, n), IsChannel)
    IN  [k \in 1..Len(ch) |-> SinkCall(ch[k])]

\* C7: the sink is called once for each Channel Message, in stream order,
\* and never for a Tempo Change; the player has returned exactly when every
\* index up to n-1 has been processed; on an empty stream it returns without
\* a sink or delay call.
C7_SinkOncePerChannelMessage ==
    ppc \in {"running", "drained"} =>
       /\ SelectSeq(sched.out, IsSink) = SinkCallsOf(parsed[1].events, sched.i)
       /\ (ppc = "drained") <=> (sched.i = Len(parsed[1].events))
       /\ parsed[1].events = <<>> => sched.out = <<>>

\* C7's case: a stream with a tempo change, two channel messages and a wait
\* has been played to its end.
C7_Witness ==
    /\ ppc = "drained"
    /\ \E i \in IdxSet(parsed[1].events) : parsed[1].events[i].is_tempo
    /\ Len(SelectSeq(sched.out, IsSink)) >= 2
    /\ Len(SelectSeq(sched.out, IsDelay)) >= 1

NoStallsIn(S) == \A m \in S : stalls[m] = 0

\* A stall longer than the expected interval precedes wait step k.
LongStallAt(k) == stalls[k] > sched.waits[k].expected

CatchUp(j) == sched.waits[j].expected - sched.waits[j].sleep_time

\* Wait step j has a tempo in force: its expected interval is above 0.
Paced(j) == sched.waits[j].expected > 0

\* C10 as stated: after a stall longer than the expected interval, no later
\* wait step requests a sleep shortened by more than max_drift and, absent
\* further stalls, every later wait step has sleep_time = expected.  Stated
\* for wait steps whose expected interval is above 0 only.
C10_DriftBoundThenNominal ==
    ppc \in {"running", "drained"} =>
       \A k, j \in IdxSet(sched.waits) :
          (LongStallAt(k) /\ k < j /\ Paced(k) /\ Paced(j)) =>
             /\ sched.waits[j].called => CatchUp(j) <= max_drift
             /\ NoStallsIn((k + 1)..j)
                   => sched.waits[j].sleep_time = sched.waits[j].expected

\* C10 as amended: after a stall longer than the expected interval and
\* absent further stalls, no later wait step shortens its sleep by more than
\* max_drift, and every wait step after the first later one that calls the
\* delay function has sleep_time = expected.
C10_DriftBoundThenRepaid ==
    ppc \in {"running", "drained"} =>
       \A k, j \in IdxSet(sched.waits) :
          (LongStallAt(k) /\ k < j /\ NoStallsIn((k + 1)..j)) =>
             /\ CatchUp(j) <= max_drift
             /\ (\E m \in (k + 1)..(j - 1) : sched.waits[m].called)
                   => sched.waits[j].sleep_time = sched.waits[j].expected

\* C10's case: a long stall that leaves no sleep, then without further
\* stalls a wait step whose sleep is shortened, then one at its expected
\* value.
C10_Witness ==
    \E k, j, l \in IdxSet(sched.waits) :
       /\ k < j /\ j < l
       /\ LongStallAt(k) /\ ~sched.waits[k].called
       /\ NoStallsIn((k + 1)..l)
       /\ sched.waits[j].called /\ CatchUp(j) > 0
       /\ sched.waits[l].called /\ CatchUp(l) = 0

\* ------------------------------------------------------------------------
\* Properties of play_parsed_events_batched (SpecBatched, FairSpecBatched)
\* ------------------------------------------------------------------------

IsPrefix(a, b) == Len(a) <= Len(b) /\ SubSeq(b, 1, Len(a)) = a

\* play_parsed_events on the same ParsedMidi and time division, given the
\* clock readings the batched consumer has taken so far.
Unbatched == play_parsed_events(parsed[1], time_div, readings)

\* C8: for every interleaving of the producer with the consumer, the sink
\* calls and delay requests of play_parsed_events_batched are, in the same
\* order, those of play_parsed_events on the same ParsedMidi, time division
\* and clock readings: a prefix of them while the consumer runs, all of them
\* once it has stopped.
C8_BatchedSameOutputs ==
    bpc \in {"running", "returned"} =>
       /\ IsPrefix(bsched.out, Unbatched.out)
       /\ (cons.pc = "done" \/ bpc = "returned") =>
             /\ Unbatched.complete
             /\ Unbatched.used = Len(readings)
             /\ Unbatched.out = bsched.out

\* C8's case: a stream of two batches, the second one short, has been played
\* to its end with a stall, sink calls and a delay request.
C8_Witness ==
    /\ bpc = "returned"
    /\ Len(sent) >= 3
    /\ Len(parsed[1].events) % batch_size # 0
    /\ \E m \in IdxSet(stalls) : stalls[m] > 0
    /\ Len(SelectSeq(bsched.out, IsSink)) >= 2
    /\ Len(SelectSeq(bsched.out, IsDelay)) >= 1

ProducerBlockedOnPool == prod.pc = "recv" /\ pool = 0

ConsumerBlockedOnWork == cons.pc = "recv" /\ workq = <<>>

\* The batches forwarded so far are non-empty ones, followed by one empty
\* batch if the producer has stopped.
ForwardedInOrder ==
    /\ \A k \in IdxSet(sent) : (sent[k] = 0) => (k = Len(sent) /\ prod.pc = "done")
    /\ prod.pc = "done" => (sent # <<>> /\ sent[Len(sent)] = 0)
    /\ SumSeq(sent) = prod.next - (IF prod.pc = "send" THEN Len(prod.buf) ELSE 0)

\* C9: under fair scheduling and a delay function that returns, the producer
\* and the consumer both stop, whatever the event count: the producer
\* forwards one empty batch after the last non-empty one and stops, the
\* consumer stops once it has received it, and the producer is never blocked
\* on the pool queue while the consumer is blocked on the work queue.
C9_BatchedTerminates ==
    /\ <>[](bpc = "returned")
    /\ [](bpc = "running" => ForwardedInOrder)
    /\ [](bpc = "running" /\ cons.pc = "done"
             => (prod.pc = "done" /\ workq = <<>>
                   /\ bsched.i = 0 /\ SumSeq(sent) = Len(parsed[1].events)))
    /\ [](bpc = "running" => ~(ProducerBlockedOnPool /\ ConsumerBlockedOnWork))

\* C9's case: a stream whose event count is an exact multiple of the batch
\* size, two batches or more, has been played and both threads have stopped.
C9_Witness ==
    /\ bpc = "returned"
    /\ prod.pc = "done"
    /\ cons.pc = "done"
    /\ Len(parsed[1].events) >= 2 * batch_size
    /\ Len(parsed[1].events) % batch_size = 0
    /\ sent[Len(sent)] = 0

\* ------------------------------------------------------------------------
\* Properties of running status (SpecRunning)
\* ------------------------------------------------------------------------

RunningDone == rs_run.track.length = 0

FullDone == rs_full.track.length = 0

\* C11: a track whose channel messages use running status decodes to the
\* same (tick, message) channel events, tempo changes and note count as the
\* track in which every message carries its status byte.
C11_RunningStatusSameEvents ==
    /\ Len(rs_run.events) = Len(rs_full.events)
          => rs_run.events = rs_full.events
    /\ (RunningDone /\ FullDone) =>
          /\ rs_run.events = rs_full.events
          /\ rs_run.tempo_changes = rs_full.tempo_changes
          /\ rs_run.note_count = rs_full.note_count
          /\ rs_run.max_tick = rs_full.max_tick

\* C11's case: three channel messages decoded from both chunks, the second
\* and third with their status byte omitted in the running-status chunk.
C11_Witness ==
    /\ RunningDone /\ FullDone
    /\ Len(rs_items) = 3
    /\ RunsOn(rs_items, 2) /\ RunsOn(rs_items, 3)
    /\ rs_items[2].e # rs_items[3].e
    /\ Len(rs_run.events) = 3

\* ------------------------------------------------------------------------
\* Properties of load_midi_file (SpecLoad)
\* ------------------------------------------------------------------------

\* The bytes of the file header: tag, length, format, track count, time
\* division.
HeaderBytes == 4 + 4 + 2 + 2 + 2

BadTag == ld_in.tag # MThd

BadHeaderLen == ld_in.header_len # 6

TopBitSet == (ld_in.time_div \div 32768) % 2 = 1

\* C12: when the header tag is not MThd, the header length is not 6 or the
\* time division has its top bit set, load_midi_file never returns Ok: it
\* returns an error with no tracks and no time division, having read no
\* byte of a track chunk and built no track.
C12_BadHeaderRejected ==
    (BadTag \/ BadHeaderLen \/ TopBitSet) =>
       /\ ld.result # "Ok"
       /\ ld.tracks = <<>>
       /\ ld.returned = <<>>
       /\ ld.pos <= HeaderBytes
       /\ ld.pc \notin {"chunks"}
       /\ ld.pc = "returned" =>
             /\ ld.result = "Err"
             /\ BadTag /\ Len(ld_file) >= 4 => ld.error = "Not a MIDI file"

\* C12's case: a whole file with two track chunks and a header whose only
\* fault is the top bit of the time division has been refused.
C12_Witness ==
    /\ ld.pc = "returned"
    /\ ~BadTag /\ ~BadHeaderLen /\ TopBitSet
    /\ ld_in.cut = 0
    /\ ld_in.num_tracks = 2
    /\ Len(ld_in.chunks) = 2
    /\ ld.error = "SMPTE timing is not supported"

\* ------------------------------------------------------------------------
\* Properties of parse_midi_events, continued (SpecParse)
\* ------------------------------------------------------------------------

\* C13: whatever the order in which the per-track parses run and return,
\* the ParsedMidi is the one value parse_midi_events computes from the
\* tracks and the time division: parsing the same input again, under any
\* schedule, yields identical events, deltas, total_ticks, total_duration
\* and note_count.
C13_ParseIsDeterministic ==
    /\ (pphase \in {"building", "done", "panicked"}) =>
          all_events = par_sort_by_key(MergeOrder(
             [k \in 1..Len(tracks) |-> parse_single_track(tracks[k], k - 1)]))
    /\ pphase = "done" => parsed = <<parse_midi_events(tracks, time_div)>>

\* C13's case: two tracks with events at one tick have been parsed to the
\* end, and the result has a delta entry.
C13_Witness ==
    /\ pphase = "done"
    /\ \E i, j \in IdxSet(all_events) :
          /\ all_events[i].tick = all_events[j].tick
          /\ ~all_events[i].is_tempo /\ ~all_events[j].is_tempo
          /\ all_events[i].track = 0 /\ all_events[j].track = 1
    /\ parsed[1].deltas # <<>>

\* ------------------------------------------------------------------------
\* Properties of the KDMAPI bindings (SpecKdmapi)
\* ------------------------------------------------------------------------

\* C14: open_stream returns an error while a stream from an earlier
\* successful open_stream has not been dropped, so at most one stream is
\* open at any time.
C14_AtMostOneOpenStream ==
    /\ kd.streams <= 1
    /\ \A n \in IdxSet(kd_log) :
          (kd_log[n] = "Ok") =>
             \A m \in 1..(n - 1) :
                (kd_log[m] = "Ok") => \E d \in (m + 1)..(n - 1) : kd_log[d] = "dropped"

\* ------------------------------------------------------------------------
\* Properties of the scheduler's wait step (SpecPlay, SpecBatched)
\* ------------------------------------------------------------------------

\* C15: at every wait step the multiplier is tempo x 10 / time_div floored
\* at 1, so at least 1, also before any Tempo Change event: the expected
\* interval delta_ticks x multiplier is never below delta_ticks.
C15_MultiplierAtLeastOne ==
    ppc \in {"running", "drained"} =>
       \A j \in IdxSet(sched.waits) :
          sched.waits[j].expected >= parsed[1].deltas[j].ticks

DelaysOf(out) == SelectSeq(out, IsDelay)

\* What C16 says of one wait step, taken from sched to sched'.
WaitStepAsSpecified ==
    LET w == sched'.waits[Len(sched'.waits)]
        delta_ticks == parsed[1].deltas[sched.delta_idx + 1].ticks
        expected == Expected(delta_ticks, sched'.mult_bpm, time_div)
        elapsed == w.now - sched.last_time
        drift == sched.delta + (elapsed - sched.old)
        sleep_time == IF drift > 0 THEN expected - drift ELSE expected
    IN  /\ w.expected = expected
        /\ w.sleep_time = sleep_time
        /\ sched'.old = expected
        /\ IF sleep_time <= 0
           THEN /\ DelaysOf(sched'.out) = DelaysOf(sched.out)
                /\ sched'.delta = IF drift < 100000 THEN drift ELSE 100000
           ELSE /\ DelaysOf(sched'.out)
                      = Append(DelaysOf(sched.out), DelayCall(sleep_time))
                /\ sched'.delta = drift

\* C16: each wait step computes expected = delta_ticks x multiplier, adds
\* (elapsed - previous expected) to the drift, and takes sleep_time =
\* expected - drift if drift > 0, else expected; with sleep_time <= 0 it
\* calls no delay and sets drift to min(drift, 100000), otherwise it calls
\* the delay function once, with sleep_time, and leaves the drift as it is.
C16_WaitStepAlgorithm ==
    [][(ppc = "running" /\ Len(sched'.waits) = Len(sched.waits) + 1)
          => WaitStepAsSpecified]_vars

\* C16's case: wait steps of each kind have been taken: one that slept its
\* expected interval, one that slept less and one that did not sleep; the
\* last one left the drift at 100000.
C16_Witness ==
    /\ ppc = "drained"
    /\ sched.delta = max_drift
    /\ \E a, b, c \in IdxSet(sched.waits) :
          /\ sched.waits[a].called
          /\ sched.waits[a].sleep_time = sched.waits[a].expected
          /\ sched.waits[b].called
          /\ sched.waits[b].sleep_time < sched.waits[b].expected
          /\ ~sched.waits[c].called
          /\ sched.waits[c].sleep_time < 0

\* ------------------------------------------------------------------------
\* Properties of the delta table and of the merged stream (SpecParse)
\* ------------------------------------------------------------------------

\* The tick advance after the event at 0-based index i of the stream.
AdvanceAfter(i) == all_events[i + 2].tick - all_events[i + 1].tick

\* The delta entries with 0-based index i.
EntriesAt(i) == {k \in IdxSet(parsed[1].deltas) : parsed[1].deltas[k].idx = i}

\* C17: the delta-table indices are strictly increasing, each is below
\* events.len() - 1, and there is an entry (i, d) exactly when event i+1 has
\* a larger tick than event i, with d the tick difference capped at the u32
\* maximum.
C17_DeltaTableInvariant ==
    pphase = "done" =>
       LET d == parsed[1].deltas
           n == Len(parsed[1].events)
       IN  /\ \A k \in 1..(Len(d) - 1) : d[k].idx < d[k + 1].idx
           /\ \A k \in IdxSet(d) : d[k].idx >= 0 /\ d[k].idx < n - 1
           /\ \A i \in 0..(n - 2) :
                 IF AdvanceAfter(i) > 0
                 THEN \E k \in EntriesAt(i) :
                         d[k].ticks = Min(AdvanceAfter(i), U32_MAX)
                 ELSE EntriesAt(i) = {}

\* C17's case: a stream with two events at one tick followed by a tick
\* advance, whose entry is keyed to the second of the two.
C17_Witness ==
    /\ pphase = "done"
    /\ \E i \in 0..(Len(all_events) - 3) :
          /\ AdvanceAfter(i) = 0
          /\ AdvanceAfter(i + 1) > 0
          /\ EntriesAt(i + 1) # {}

\* The events of kind is_tempo at tick t that track k contributed, in the
\* order the track's parse produced them.
TrackEventsAt(k, t, is_tempo) ==
    LET tr == track_results[k][1]
        evs == IF is_tempo THEN TempoEvents(tr) ELSE tr.events
    IN  SelectSeq(evs, LAMBDA e : e.tick = t)

\* The events of kind is_tempo at tick t in the merged stream, in order.
MergedEventsAt(t, is_tempo) ==
    SelectSeq(all_events, LAMBDA e : e.tick = t /\ e.is_tempo = is_tempo)

\* C18: the merged stream is non-decreasing in tick, and the events of one
\* kind at one tick are those of track 0 in their within-track order, then
\* those of track 1, and so on.
C18_MergedOrderStable ==
    Merged =>
       /\ \A i, j \in IdxSet(all_events) :
             i < j => all_events[i].tick <= all_events[j].tick
       /\ \A t \in TickSet : \A is_tempo \in BOOLEAN :
             MergedEventsAt(t, is_tempo)
                = Flatten([k \in 1..Len(track_results) |->
                              TrackEventsAt(k, t, is_tempo)])

\* C18's case: at one tick, two different channel events of track 0 and one
\* of track 1.
C18_Witness ==
    /\ Merged
    /\ \E i, j, k \in IdxSet(all_events) :
          /\ i < j /\ j < k
          /\ all_events[i].tick = all_events[k].tick
          /\ ~all_events[i].is_tempo /\ ~all_events[j].is_tempo
          /\ ~all_events[k].is_tempo
          /\ all_events[i].track = 0 /\ all_events[j].track = 0
          /\ all_events[k].track = 1
          /\ all_events[i].data # all_events[j].data

\* ------------------------------------------------------------------------
\* Properties of the two queues (SpecBatched)
\* ------------------------------------------------------------------------

\* The buffers a thread holds: the producer between its recv and its send,
\* the consumer between its recv of a non-empty batch and its try_send.
HeldByProducer == IF prod.pc = "send" THEN 1 ELSE 0

HeldByConsumer == IF cons.pc \in {"dispatch", "waits"} THEN 1 ELSE 0

BuffersInUse == pool + Len(workq) + HeldByProducer + HeldByConsumer

QueuesBounded ==
    /\ Len(workq) <= lookahead_batches
    /\ pool >= 0 /\ pool <= lookahead_batches
    /\ BuffersInUse <= lookahead_batches
    /\ (bpc = "running" /\ cons.pc # "done") => BuffersInUse = lookahead_batches
    /\ dropped = 0

\* C19: the work queue and the pool queue never hold more than their
\* capacity (2048 in the code), the buffers in the pool, in the work queue
\* and held by the two threads never number more than that in total, the
\* producer does not move while the pool is empty, and the consumer's
\* try_send of a drained buffer is never refused.
C19_QueuesBounded ==
    /\ []QueuesBounded
    /\ [][(prod.pc = "recv" /\ pool = 0) => prod' = prod]_vars

\* C19's case: the pool is empty with the producer waiting for a buffer,
\* while the consumer drains one batch and the others wait in the work queue.
C19_Witness ==
    /\ bpc = "running"
    /\ ProducerBlockedOnPool
    /\ HeldByConsumer = 1
    /\ Len(workq) = lookahead_batches - 1

\* ------------------------------------------------------------------------
\* Properties of total_duration (SpecParse)
\* ------------------------------------------------------------------------

\* The tick of the event before the event at 1-based index i, 0 for the
\* first event.
TickBefore(i) == IF i = 1 THEN 0 ELSE all_events[i - 1].tick

\* The value of the last Tempo Change before index i in the stream, 500000
\* if there is none.
TempoBefore(i) ==
    LET S == {j \in 1..(i - 1) : all_events[j].is_tempo}
    IN  IF S = {} THEN 500000 ELSE all_events[SetMax(S)].data

\* The sum over the tick advances of floor(advance x tempo / time_div).
TempoWeightedSum ==
    SumSeq([i \in IdxSet(all_events) |->
               IF all_events[i].tick > TickBefore(i)
               THEN ((all_events[i].tick - TickBefore(i)) * TempoBefore(i))
                       \div time_div
               ELSE 0])

\* C20 as stated: total_duration is, in microseconds, the sum over every
\* tick advance (the one from tick 0 included) of floor(advance x tempo /
\* time_div), the tempo being that of the last Tempo Change before the
\* advance in stream order, or 500000.
C20_DurationIsTempoWeightedSum ==
    pphase = "done" => parsed[1].total_duration = TempoWeightedSum

\* C20 as amended: total_duration is that sum, or u64::MAX nanoseconds if
\* the sum is longer than that.
C20_DurationIsSaturatedSum ==
    pphase = "done" =>
       /\ parsed[1].total_duration = Min(TempoWeightedSum, U64NanosMax \div 1000)
       /\ TempoWeightedSum * 1000 <= U64NanosMax
             => parsed[1].total_duration = TempoWeightedSum

\* C20's case: a jump to a tick that holds a Tempo Change, timed at the
\* default tempo, then a jump timed at the new tempo.
C20_Witness ==
    /\ pphase = "done"
    /\ time_div = 480
    /\ \E i \in IdxSet(all_events) :
          /\ all_events[i].is_tempo
          /\ all_events[i].data = 480000
          /\ all_events[i].tick > TickBefore(i)
          /\ \E j \in IdxSet(all_events) : all_events[j].tick > all_events[i].tick
    /\ parsed[1].total_duration = 980000

\* ------------------------------------------------------------------------
\* Properties of the byte-level decoder, continued (SpecTrack, SpecLong)
\* ------------------------------------------------------------------------

\* The status the next loop iteration decodes on track t.
NextStatus(t) == update_command(t).message % 256

\* The track after the next iteration's status byte (if any) and, for a
\* meta event, its type byte: the cursor is at the length prefix.
AtLengthPrefix(t) ==
    LET c == update_command(t)
    IN  IF NextStatus(t) = 255 /\ c.offset < c.length
        THEN [c EXCEPT !.offset = c.offset + 1]
        ELSE c

\* The next iteration on t reads a meta or system-exclusive event whose
\* declared payload length exceeds the bytes that remain after the prefix.
DeclaresOverrun(t) ==
    /\ NextStatus(t) \in {240, 255}
    /\ update_command(t).offset < t.length
    /\ LET d == decode_variable_length(AtLengthPrefix(t))
       IN  d[1].offset + d[2] > t.length

\* The bytes of t that remain after the length prefix of its next event.
RemainingPayload(t) ==
    SubSeq(t.data, decode_variable_length(AtLengthPrefix(t))[1].offset + 1,
           t.length)

DataByteBeforeStatus(t) ==
    /\ t.offset < t.length
    /\ t.data[t.offset + 1] < 128
    /\ t.last_status = <<>>

\* The parameter bits update_message gives a message of status 0 on t: the
\* next two bytes, if two remain.
SentinelParams(t) ==
    IF t.offset + 2 <= t.length
    THEN t.data[t.offset + 1] * 256 + t.data[t.offset + 2] * 65536
    ELSE 0

\* C22: when the next byte of a track has its high bit clear and no status
\* byte has been read in the track, update_command sets the message to 0
\* and leaves the cursor and everything else as they were; the iteration
\* completes, pushes an event of status 0 whose parameters are the following
\* bytes, moves the cursor forward, and still has no status recorded.
C22_SentinelZeroAndContinue ==
    [][(tpc = "loop" /\ DataByteBeforeStatus(trk.track)) =>
          /\ update_command(trk.track) = [trk.track EXCEPT !.message = 0]
          /\ trk'.events = Append(trk.events,
                                  [tick |-> trk.track.tick,
                                   data |-> SentinelParams(trk.track),
                                   track |-> 0,
                                   is_tempo |-> FALSE])
          /\ trk'.track.offset > trk.track.offset
          /\ trk'.track.last_status = <<>>]_vars

\* C22's case: a track that starts with data bytes has had a status-0 event
\* pushed, and the loop has gone on to read the status byte that follows.
C22_Witness ==
    /\ tpc = "loop"
    /\ Len(raw) >= 5
    /\ raw[2] < 128 /\ raw[2] > 0
    /\ Len(trk.events) >= 2
    /\ trk.events[1].data = raw[2] * 256 + raw[3] * 65536
    /\ trk.events[2].data % 256 >= 128

\* The next iteration on t reads a meta event whose type byte is 0x2F.
ReadsEndOfTrack(t) ==
    /\ NextStatus(t) = 255
    /\ update_command(t).offset < t.length
    /\ t.data[update_command(t).offset + 1] = 47

\* What a track has contributed so far.
Contribution(ps) == <<ps.events, ps.tempo_changes, ps.note_count>>

\* C23: the iteration that reads an End of Track meta (0xFF 0x2F) sets the
\* track's length to 0 and adds no event, tempo change or note; and once
\* the length is 0 nothing more is added and the length stays 0, whatever
\* bytes follow in the chunk.
C23_NothingAfterEndOfTrack ==
    [][/\ (tpc = "loop" /\ ReadsEndOfTrack(trk.track)) =>
             /\ trk'.track.length = 0
             /\ Contribution(trk') = Contribution(trk)
       /\ trk.track.length = 0 =>
             /\ trk'.track.length = 0
             /\ Contribution(trk') = Contribution(trk)]_vars

\* C23's case: an End of Track meta followed in the chunk by a note-on
\* status byte has been read, and the parse has returned without events.
C23_Witness ==
    /\ tpc = "done"
    /\ Len(raw) >= 5
    /\ raw[1] < 128 /\ raw[2] = 255 /\ raw[3] = 47 /\ raw[4] = 0
    /\ raw[5] = 144
    /\ trk.track.length = 0
    /\ Contribution(trk) = <<<<>>, <<>>, 0>>

\* ------------------------------------------------------------------------
\* Properties of load_midi_file, continued (SpecLoad)
\* ------------------------------------------------------------------------

\* The chunks of the file whose tag is not MTrk.
ForeignChunks == {j \in 1..Len(ld_in.chunks) : ld_in.chunks[j].tag # MTrk}

\* The first of them.
FirstForeign == CHOOSE j \in ForeignChunks : \A h \in ForeignChunks : j <= h

\* The offset in the whole file of the byte after chunk j's tag.
TagEnd(j) ==
    HeaderBytes
    + SumSeq([k \in 1..(j - 1) |-> 4 + 4 + Len(ld_in.chunks[k].data)])
    + 4

\* The loader reaches a chunk whose tag is not MTrk: the header is accepted,
\* the chunk is among the declared tracks and its tag is in the file.
MeetsForeignChunk ==
    /\ ~BadTag /\ ~BadHeaderLen /\ ~TopBitSet
    /\ ForeignChunks # {}
    /\ FirstForeign <= ld_in.num_tracks
    /\ TagEnd(FirstForeign) <= Len(ld_file)

\* C24: when a track chunk's tag is not MTrk, load_midi_file returns Ok
\* with exactly the tracks of the chunks before it, in file order, and the
\* time division; no chunk after it is loaded, MTrk or not, and nothing of
\* the file after its tag is read.
C24_ForeignChunkEndsScan ==
    (MeetsForeignChunk /\ ld.pc = "returned") =>
       /\ ld.result = "Ok"
       /\ ld.returned =
             <<[tracks |-> [k \in 1..(FirstForeign - 1) |->
                               LoadTrack(ld_in.chunks[k].data)],
                time_div |-> ld_in.time_div]>>
       /\ ld.pos = TagEnd(FirstForeign)

\* C24's case: a file of three declared chunks, an MTrk chunk with a note,
\* a chunk with another tag and an MTrk chunk, has been loaded: one track.
C24_Witness ==
    /\ ld.pc = "returned"
    /\ MeetsForeignChunk
    /\ ld_in.num_tracks = 3
    /\ Len(ld_in.chunks) = 3
    /\ ld_in.cut = 0
    /\ FirstForeign = 2
    /\ ld_in.chunks[3].tag = MTrk
    /\ Len(ld_in.chunks[1].data) > 4
    /\ Len(ld.returned[1].tracks) = 1

\* ------------------------------------------------------------------------
\* Properties of the note count (SpecNotes)
\* ------------------------------------------------------------------------

\* The (track, item) positions of the file's note-on messages (status
\* 0x90..0x9F) with a velocity above 0.
SoundingNoteOns ==
    {p \in UNION {{<<k, i>> : i \in 1..Len(file_items[k])} :
                    k \in 1..Len(file_items)} :
        LET e == file_items[p[1]][p[2]].e
        IN  e[1] >= 144 /\ e[1] <= 159 /\ e[3] > 0}

\* The same messages as they stand in the merged buffer of the ParsedMidi.
SoundingEvents ==
    {i \in 1..Len(parsed[1].events) :
        /\ ~parsed[1].events[i].is_tempo
        /\ parsed[1].events[i].data % 256 >= 144
        /\ parsed[1].events[i].data % 256 <= 159
        /\ (parsed[1].events[i].data \div 65536) % 256 > 0}

\* C25: note_count of the ParsedMidi is the number of channel events, over
\* all tracks, whose status is in 0x90..0x9F and whose velocity is above 0:
\* note-ons of velocity 0 and every other message are not counted.
C25_NoteCount ==
    pphase = "done" =>
       /\ parsed[1].note_count = Cardinality(SoundingNoteOns)
       /\ parsed[1].note_count = Cardinality(SoundingEvents)

\* C25's case: a file whose two tracks hold a note-on of velocity 0, a
\* message of another status and a sounding note-on each side of them has
\* been parsed, and note_count is below the number of events.
C25_Witness ==
    /\ pphase = "done"
    /\ Len(file_items[1]) >= 1 /\ Len(file_items[2]) >= 1
    /\ \E k \in 1..2 : \E i \in 1..Len(file_items[k]) :
          file_items[k][i].e = NoteOnSilent
    /\ \E k \in 1..2 : \E i \in 1..Len(file_items[k]) :
          file_items[k][i].e[1] \notin 144..159
    /\ parsed[1].note_count = 1
    /\ Len(parsed[1].events) = 3

\* ------------------------------------------------------------------------
\* Properties of the StatsLogger (SpecStats)
\* ------------------------------------------------------------------------

\* The frame in which call p was made: the next_frame calls before it.
FrameOf(p) == Cardinality({q \in 1..(p - 1) : sl_log[q].op = "next_frame"})

\* The increments made before call p in the frame of p and the fps - 1
\* frames before it.
InWindow(p) ==
    {q \in 1..(p - 1) : /\ sl_log[q].op = "increment"
                        /\ FrameOf(q) + sl.fps > FrameOf(p)}

\* Their sum.
RECURSIVE SumOver(_)
SumOver(Q) ==
    IF Q = {} THEN 0
    ELSE LET q == CHOOSE x \in Q : TRUE
         IN  sl_log[q].by + SumOver(Q \ {q})

WindowSum(p) == SumOver(InWindow(p))

GetEpsCalls == {p \in 1..Len(sl_log) : sl_log[p].op = "get_eps"}

\* C26: get_eps returns the sum of the increments made during the current
\* frame and the F - 1 frames before it, after any sequence of calls.
C26_RollingSum ==
    \A p \in GetEpsCalls : sl_log[p].ret = <<WindowSum(p)>>

\* C26, restated: get_eps returns that sum whenever it is at most u32::MAX;
\* when it is more, get_eps returns the sum modulo 2^32 or panics.
C26_RollingSumModulo ==
    \A p \in GetEpsCalls :
       IF WindowSum(p) <= U32_MAX
       THEN sl_log[p].ret = <<WindowSum(p)>>
       ELSE sl_log[p].ret \in {<<>>, <<WindowSum(p) % (U32_MAX + 1)>>}

\* C26's case: with two frames or more, get_eps has returned a sum above 0
\* that leaves out an increment made in a frame that is no longer in the
\* window.
C26_Witness ==
    /\ sl.fps >= 2
    /\ \E p \in GetEpsCalls :
          /\ sl_log[p].ret # <<>>
          /\ sl_log[p].ret[1] > 0
          /\ \E q \in 1..(p - 1) :
                /\ sl_log[q].op = "increment"
                /\ q \notin InWindow(p)

\* ------------------------------------------------------------------------
\* Properties of the cursor (SpecTrack)
\* ------------------------------------------------------------------------

\* The track holds as many bytes as its length says, and while it has any
\* its cursor is within them.
CursorInTrack ==
    /\ Len(trk.track.data) = trk.track.length
    /\ trk.track.length <= Len(raw)
    /\ trk.track.length > 0 => trk.track.offset <= trk.track.length

\* A loop iteration moves the cursor forward only, and not past the length
\* the track had when the iteration read from it.
StepInTrack ==
    trk' # trk =>
       /\ trk.track.offset <= trk'.track.offset
       /\ trk'.track.offset <= trk.track.length

\* C27: for every track byte sequence, through the loader's update_tick and
\* every iteration of parse_single_track, the bytes are read at the cursor,
\* which stays below the track length (itself the number of bytes held) at
\* each read and never moves past the length the track had at that read.
C27_ReadsWithinTrack == []CursorInTrack /\ [][StepInTrack]_vars

\* C27's case: a track that ends one byte after a note-on status byte has
\* been read to its end: the event has no parameters, the cursor is at the
\* length.
C27_Witness ==
    /\ tpc = "loop"
    /\ Len(raw) >= 4
    /\ raw[Len(raw) - 1] = 144
    /\ trk.track.length = Len(raw)
    /\ trk.track.offset = Len(raw)
    /\ trk.events # <<>>
    /\ trk.events[Len(trk.events)].data = 144

\* ------------------------------------------------------------------------
\* Properties of the delay requests (SpecPlay)
\* ------------------------------------------------------------------------

\* The wait step that took the scheduler from `before` to `after`, for
\* delta_ticks ticks, called the delay function at most once, and if it did,
\* with a value above 0 and at most delta_ticks x multiplier.
DelayWithinNominal(before, after, delta_ticks) ==
    LET asked == DelaysOf(after.out)
        expected == Expected(delta_ticks, after.mult_bpm, time_div)
    IN  \/ asked = DelaysOf(before.out)
        \/ /\ Len(asked) = Len(DelaysOf(before.out)) + 1
           /\ SubSeq(asked, 1, Len(asked) - 1) = DelaysOf(before.out)
           /\ asked[Len(asked)].data > 0
           /\ asked[Len(asked)].data <= expected

\* The wait step of the batched consumer on the scheduler locals, event and
\* clock reading of the wait step that play_parsed_events takes from sched.
BatchedWaitHere ==
    LET ev == parsed[1].events[sched.i + 1]
    IN  batched_wait(batched_dispatch(sched, [idx |-> sched.i, data |-> ev.data,
                                              track |-> ev.track,
                                              is_tempo |-> ev.is_tempo]),
                     parsed[1].deltas[sched.delta_idx + 1].ticks,
                     sched'.waits[Len(sched'.waits)].now, time_div)

\* C28: every call of the delay function by a wait step, of
\* play_parsed_events and of the batched consumer alike, passes a sleep_time
\* with 0 < sleep_time <= expected = delta_ticks x multiplier of that step,
\* whatever the clock reading and the drift carried into the step.
C28_SleepWithinNominal ==
    [][(ppc = "running" /\ Len(sched'.waits) = Len(sched.waits) + 1) =>
          /\ DelayWithinNominal(sched, sched',
                                parsed[1].deltas[sched.delta_idx + 1].ticks)
          /\ DelayWithinNominal(sched, BatchedWaitHere,
                                parsed[1].deltas[sched.delta_idx + 1].ticks)]_vars

\* C28's case: a wait step entered with a drift below 0 (the scheduler ran
\* ahead) has asked for exactly its expected interval, and another, entered
\* with a drift above 0, for less.
C28_Witness ==
    \E a, b \in IdxSet(sched.waits) :
       /\ a > 1
       /\ ~sched.waits[a - 1].called
       /\ sched.waits[a].now - sched.waits[a - 1].now
             < sched.waits[a - 1].expected - max_drift
       /\ sched.waits[a].called
       /\ sched.waits[a].sleep_time = sched.waits[a].expected
       /\ sched.waits[b].called
       /\ sched.waits[b].sleep_time < sched.waits[b].expected

\* ------------------------------------------------------------------------
\* Properties of the first event's tick (SpecPlay)
\* ------------------------------------------------------------------------

\* The tick of the first event of the merged stream.
FirstTick == all_events[1].tick

\* The 1-based positions of the events followed by an event of a larger
\* tick.
InterEventAdvances ==
    {i \in 1..(Len(all_events) - 1) : all_events[i + 1].tick > all_events[i].tick}

\* The microseconds of the advance from tick 0 to the first event, which no
\* Tempo Change precedes, as total_duration holds them.
FirstAdvanceMicros ==
    Min(U64NanosMax \div 1000, (FirstTick * DefaultTempo) \div time_div)

\* The tick playback has waited up to, after sched.i events.
TickReached ==
    IF sched.i < Len(all_events) THEN all_events[sched.i + 1].tick
    ELSE all_events[Len(all_events)].tick

\* C29: the delta table has one entry per tick advance between two events
\* and none for the advance from tick 0 to the first event; playback calls
\* neither the sink nor the delay function before it dispatches the first
\* event, and the ticks it waits for add up to the span from the first
\* event's tick, not from 0 (less where an entry was capped at u32::MAX);
\* total_duration includes the first advance.
C29_FirstTickNotWaitedFor ==
    (ppc \in {"running", "drained"} /\ all_events # <<>>) =>
       /\ Len(parsed[1].deltas) = Cardinality(InterEventAdvances)
       /\ \A k \in IdxSet(parsed[1].deltas) : parsed[1].deltas[k].idx >= 0
       /\ sched.i = 0 => sched.out = <<>> /\ sched.waits = <<>>
       /\ (sched.i >= 1 /\ ~all_events[1].is_tempo) =>
             sched.out[1] = SinkCall(all_events[1])
       /\ sched.i >= 1 =>
             /\ sched.tick <= TickReached - FirstTick
             /\ (\A k \in IdxSet(parsed[1].deltas) :
                    parsed[1].deltas[k].ticks < U32_MAX) =>
                   sched.tick = TickReached - FirstTick
       /\ parsed[1].total_duration >= FirstAdvanceMicros
       /\ parsed[1].deltas = <<>> =>
             /\ parsed[1].total_duration = FirstAdvanceMicros
             /\ DelaysOf(sched.out) = <<>>

\* C29's case: a stream whose events are all at one tick above 0 has been
\* played to the end: the sink was called, no delay was asked for, and
\* total_duration is the time of the advance to that tick.
C29_Witness ==
    /\ ppc = "drained"
    /\ Len(all_events) >= 2
    /\ FirstTick > 0
    /\ parsed[1].deltas = <<>>
    /\ sched.out # <<>>
    /\ DelaysOf(sched.out) = <<>>
    /\ parsed[1].total_duration > 0

====
